---- MODULE Spec2Model ----
(***************************************************************************)
(* Model of the shadcn/ui component issue analyzer:                        *)
(*   OpenAIService   (analyzeIssue, analyzeIssuesBatch, validateAnalysis)  *)
(*   GitHubService   (searchComponentIssues)                               *)
(*   ShadcnIssueAnalyzer (analyzeComponent, createReport, createEmptyReport)*)
(***************************************************************************)
EXTENDS Integers, Sequences, FiniteSets, TLC

VARIABLES
    request,        \* analyzeIssue: the OpenAIIssueAnalysisRequest of the call
    outcome,        \* analyzeIssue: what the chat-completions backend did
    settled,        \* analyzeIssue: the promise returned to the caller
    requests,       \* analyzeIssuesBatch: its argument
    i,              \* analyzeIssuesBatch: the loop index
    batchPromises,  \* analyzeIssuesBatch: the promises of the current chunk
    results,        \* analyzeIssuesBatch: the results collected so far
    bpc,            \* analyzeIssuesBatch: where the call stands
    replies,        \* the backend's outcome for the call made for each request
    outOfOrder,     \* some call settled while an earlier call of its chunk was pending
    calls,          \* how many calls analyzeIssue made to the backend for each request
    delays,         \* how many delays between chunks have elapsed
    chunks,         \* how many chunks have been started
    searchOptions,  \* searchComponentIssues: its options argument
    searchResponse, \* what the issue search backend answers
    searchQuery,    \* the query sent to the issue search backend
    searchReturn,   \* searchComponentIssues: the promise returned to the caller
    options,        \* analyzeComponent: its AnalyzeOptions argument
    pc,             \* analyzeComponent: where the call stands
    issues,         \* analyzeComponent: the issues the search gave
    analyses,       \* analyzeComponent: the issues paired with their analyses
    summary,        \* analyzeComponent: the summary of generateSummary
    report,         \* analyzeComponent: the report it returns
    summaryReply,   \* what the backend did with the call of generateComponentSummary
    failure,        \* analyzeComponent: the error it rethrows to its caller
    markdown,       \* generateMarkdownReport: what rendering the report gave
    announced,      \* analyzeIssuesWithOpenAI: the counts of its 'Analysis complete' message
    env,            \* the analyze command: its environment and arguments
    cpc,            \* the analyze command: where it stands
    exitCode,       \* the analyze command: the code the process exits with
    files,          \* the files written, in the order of the writes
    stats,          \* the analyze command: the result of getAnalysisStats
    saveError,      \* ShadcnIssueAnalyzer.saveReport: the error it rethrows
    fsFault         \* the file system operation that failed, if one did

classifyVars == <<request, outcome, settled>>

batchVars ==
    <<requests, i, batchPromises, results, bpc, replies, outOfOrder, calls, delays, chunks>>

searchVars == <<searchOptions, searchResponse, searchQuery, searchReturn>>

analyzerVars ==
    <<options, pc, issues, analyses, summary, report, summaryReply, failure, markdown,
      announced>>

cliVars == <<env, cpc, exitCode, files, stats, saveError, fsFault>>

vars == <<classifyVars, batchVars, searchVars, analyzerVars, cliVars>>

(***************************************************************************)
(* JavaScript values.  Every value is a record of one shape, so that       *)
(* values of different JavaScript types can be compared.                   *)
(*   type  the typeof / JSON kind; "absent" marks a property that is not   *)
(*         in the object                                                   *)
(*   b     the boolean, n the number, s the text as a sequence of tokens   *)
(*         (for an array: its elements)                                    *)
(***************************************************************************)
Absent == [type |-> "absent", b |-> FALSE, n |-> 0, s |-> <<>>]

JNull == [type |-> "null", b |-> FALSE, n |-> 0, s |-> <<>>]

JBool(x) == [type |-> "boolean", b |-> x, n |-> 0, s |-> <<>>]

JNum(x) == [type |-> "number", b |-> FALSE, n |-> x, s |-> <<>>]

JStr(x) == [type |-> "string", b |-> FALSE, n |-> 0, s |-> x]

JArr(x) == [type |-> "array", b |-> FALSE, n |-> 0, s |-> x]

\* Not-a-Number: typeof NaN is "number"; every comparison with it is false.
JNaN == [type |-> "number", b |-> FALSE, n |-> 0, s |-> <<"NaN">>]

IsNaN(v) == v.type = "number" /\ v.s = <<"NaN">>

\* JavaScript truthiness, as `a.is_critical || ...` and `!content` apply it.
Truthy(v) ==
    CASE v.type = "boolean" -> v.b
      [] v.type = "number"  -> ~IsNaN(v) /\ v.n # 0
      [] v.type = "string"  -> v.s # <<>>
      [] v.type = "array"   -> TRUE
      [] OTHER              -> FALSE

Range(seq) == {seq[k] : k \in DOMAIN seq}

(***************************************************************************)
(* Text of numbers: template literals and parseInt convert between a       *)
(* number and its decimal digits.                                          *)
(***************************************************************************)
Digits == <<"0", "1", "2", "3", "4", "5", "6", "7", "8", "9">>

IsDigit(c) == \E d \in DOMAIN Digits : Digits[d] = c

DigitValue(c) == (CHOOSE d \in DOMAIN Digits : Digits[d] = c) - 1

RECURSIVE NumText(_)
NumText(x) ==
    IF x < 0 THEN <<"-">> \o NumText(-x)
    ELSE IF x < 10 THEN <<Digits[x + 1]>>
    ELSE NumText(x \div 10) \o <<Digits[(x % 10) + 1]>>

RECURSIVE ParseDigits(_, _)
ParseDigits(chars, acc) ==
    IF chars = <<>> \/ ~IsDigit(Head(chars)) THEN acc
    ELSE ParseDigits(Tail(chars), acc * 10 + DigitValue(Head(chars)))

\* parseInt(text): the leading decimal digits; NaN when there is none.
ParseInt(chars) ==
    IF chars = <<>> \/ ~IsDigit(Head(chars)) THEN JNaN
    ELSE JNum(ParseDigits(chars, 0))

\* `${value}`: the text a template literal gives a value.
ToText(v) ==
    CASE v.type = "string"  -> v.s
      [] v.type = "number"  -> IF IsNaN(v) THEN <<"NaN">> ELSE NumText(v.n)
      [] v.type = "boolean" -> IF v.b THEN <<"true">> ELSE <<"false">>
      [] v.type = "array"   -> v.s
      [] v.type = "null"    -> <<"null">>
      [] OTHER              -> <<"undefined">>

(***************************************************************************)
(* Issues.  html_url is a sequence of the segments between '/', each a     *)
(* sequence of tokens; the last segment is the issue number in decimal     *)
(* digits.  An item is a record of the search response: an issue or a pull *)
(* request.                                                                *)
(***************************************************************************)
HtmlUrl(number) ==
    << <<"https:">>, <<>>, <<"github.com">>, <<"shadcn-ui">>, <<"ui">>,
       <<"issues">>, NumText(number) >>

Item(number, isPullRequest) ==
    [number       |-> number,
     title        |-> <<"title of ">> \o NumText(number),
     body         |-> JNull,
     state        |-> "open",
     html_url     |-> HtmlUrl(number),
     labels       |-> <<>>,
     pull_request |-> isPullRequest]

\* GitHubService.transformIssue
transformIssue(item) ==
    [number   |-> item.number,
     title    |-> item.title,
     body     |-> item.body,
     state    |-> item.state,
     html_url |-> item.html_url,
     labels   |-> [k \in DOMAIN item.labels |-> [name |-> item.labels[k].name]]]

\* The request analyzeIssuesWithOpenAI derives from an issue.
RequestFrom(component, issue) ==
    [component_name |-> component,
     issue_title    |-> issue.title,
     issue_body     |-> IF Truthy(issue.body) THEN issue.body.s ELSE <<>>,
     issue_labels   |-> [k \in DOMAIN issue.labels |-> issue.labels[k].name],
     issue_url      |-> issue.html_url]

RequestFor(component, number) ==
    RequestFrom(component, transformIssue(Item(number, FALSE)))

NoRequest == RequestFor("", 0)

(***************************************************************************)
(* The IssueAnalysis shape.  An object is a record of the seven required   *)
(* properties and extra_field, which stands for any property the interface *)
(* does not have; a property the object lacks is Absent.                   *)
(***************************************************************************)
required ==
    <<"issue_id", "is_critical", "severity_level", "reasoning",
      "affected_functionality", "impact_description", "confidence_score">>

SeverityLevels == <<"low", "medium", "high", "critical">>

EmptyObject ==
    [issue_id |-> Absent, is_critical |-> Absent, severity_level |-> Absent,
     reasoning |-> Absent, affected_functionality |-> Absent,
     impact_description |-> Absent, confidence_score |-> Absent,
     extra_field |-> Absent]

(***************************************************************************)
(* What the chat-completions call does (the backend's side):               *)
(*   reject   create() rejects: transport, auth or quota failure           *)
(*   empty    no choice, or a choice with null or empty content            *)
(*   text     content that is not JSON                                     *)
(*   json     content that is the JSON text of a non-object value          *)
(*   object   content that is the JSON text of an object                   *)
(***************************************************************************)
Outcome(kind, value, object) == [kind |-> kind, value |-> value, object |-> object]

Rejects == Outcome("reject", Absent, EmptyObject)

EmptyContent == Outcome("empty", Absent, EmptyObject)

NotJson == Outcome("text", Absent, EmptyObject)

JsonValue(v) == Outcome("json", v, EmptyObject)

JsonObject(o) == Outcome("object", Absent, o)

NoOutcome == Outcome("none", Absent, EmptyObject)

\* Errors: name and message, the message a sequence of tokens.
Error(name, message) == [name |-> name, message |-> message]

NoError == Error("", <<>>)

\* `${error}`: Error.prototype.toString gives "name: message".
ErrorText(e) == <<e.name, ": ">> \o e.message

\* The result of running a block that may throw.
Threw(e) == [threw |-> TRUE, error |-> e, value |-> EmptyObject]

Returned(v) == [threw |-> FALSE, error |-> NoError, value |-> v]

\* A promise: pending, fulfilled with value, or rejected with reason.
Pending == [status |-> "pending", value |-> EmptyObject, reason |-> NoError]

Fulfilled(v) == [status |-> "fulfilled", value |-> v, reason |-> NoError]

Rejected(e) == [status |-> "rejected", value |-> EmptyObject, reason |-> e]

(***************************************************************************)
(* OpenAIService.validateAnalysis                                          *)
(***************************************************************************)
\* `field in analysis`: throws a TypeError when analysis is not an object.
InThrows(analysis) == analysis.kind # "object"

In(field, analysis) == analysis.object[field].type # "absent"

\* ['low', 'medium', 'high', 'critical'].includes(value)
Includes(levels, v) ==
    v.type = "string" /\ \E k \in DOMAIN levels : v.s = <<levels[k]>>

\* Mutant of MissingFields: impact_description is not among the fields checked.
MissingFieldsButImpact(analysis) ==
    SelectSeq(required, LAMBDA field : field # "impact_description" /\ ~In(field, analysis))

MissingFields(analysis) == SelectSeq(required, LAMBDA field : ~In(field, analysis))

\* Mutant of ConfidenceInvalid: the upper bound is not checked.
ConfidenceInvalidNoUpperBound(v) ==
    \/ v.type # "number"
    \/ (~IsNaN(v) /\ v.n < 0)

ConfidenceInvalid(v) ==
    \/ v.type # "number"
    \/ (~IsNaN(v) /\ v.n < 0)
    \/ (~IsNaN(v) /\ v.n > 100)

validateAnalysis(analysis) ==
    IF InThrows(analysis)
    THEN Threw(Error("TypeError",
            <<"Cannot use 'in' operator to search for '", required[1], "' in ">>
                \o ToText(analysis.value)))
    ELSE IF Len(MissingFields(analysis)) > 0
    THEN Threw(Error("Error",
            <<"Missing required fields in analysis: ">> \o MissingFields(analysis)))
    ELSE IF ~Includes(SeverityLevels, analysis.object.severity_level)
    THEN Threw(Error("Error",
            <<"Invalid severity_level: ">> \o ToText(analysis.object.severity_level)))
    ELSE IF ConfidenceInvalid(analysis.object.confidence_score)
    THEN Threw(Error("Error",
            <<"Invalid confidence_score: ">> \o ToText(analysis.object.confidence_score)))
    ELSE Returned(analysis.object)

(***************************************************************************)
(* OpenAIService.analyzeIssue                                              *)
(***************************************************************************)
\* request.issue_url.split('/').pop() || '0'
LastSegment(url) == IF url[Len(url)] = <<>> THEN <<"0">> ELSE url[Len(url)]

\* The fallback analysis of the catch block.
FallbackAnalysis(req, error) ==
    [issue_id               |-> ParseInt(LastSegment(req.issue_url)),
     is_critical            |-> JBool(FALSE),
     severity_level         |-> JStr(<<"medium">>),
     reasoning              |-> JStr(<<"Failed to analyze with OpenAI: ">>
                                        \o ErrorText(error)
                                        \o <<". Manual review required.">>),
     affected_functionality |-> JArr(<<"unknown">>),
     impact_description     |-> JStr(<<"Unable to determine impact due to analysis failure">>),
     confidence_score       |-> JNum(0),
     extra_field            |-> Absent]

\* The try block: create(), the content check, JSON.parse, validateAnalysis.
AnalyzeIssueTry(req, out) ==
    IF out.kind = "reject"
    THEN Threw(Error("Error", <<"Connection error.">>))
    ELSE IF out.kind = "empty"
    THEN Threw(Error("Error", <<"No response content from OpenAI">>))
    ELSE IF out.kind = "text"
    THEN Threw(Error("SyntaxError", <<"Unexpected token in JSON at position 0">>))
    ELSE validateAnalysis(out)

\* Mutant of analyzeIssue: the error of the try block is not caught.
analyzeIssueUncaught(req, out) ==
    LET body == AnalyzeIssueTry(req, out)
    IN  IF body.threw
        THEN Rejected(body.error)
        ELSE Fulfilled(body.value)

\* Mutant of analyzeIssue: the catch block logs the error and returns nothing.
analyzeIssueSwallows(req, out) ==
    LET body == AnalyzeIssueTry(req, out)
    IN  IF body.threw
        THEN Fulfilled(EmptyObject)
        ELSE Fulfilled(body.value)

\* The promise analyzeIssue returns, settled.
analyzeIssue(req, out) ==
    LET body == AnalyzeIssueTry(req, out)
    IN  IF body.threw
        THEN Fulfilled(FallbackAnalysis(req, body.error))
        ELSE Fulfilled(body.value)

(***************************************************************************)
(* The backend outcomes a single analyzeIssue call is checked against.     *)
(***************************************************************************)
IssueIdValues == {Absent, JNum(41)}

IsCriticalValues == {Absent, JBool(TRUE), JBool(FALSE), JStr(<<"yes">>)}

SeverityValues ==
    {Absent, JStr(<<"low">>), JStr(<<"medium">>), JStr(<<"high">>),
     JStr(<<"critical">>), JStr(<<"urgent">>), JNum(3)}

TextValues == {Absent, JStr(<<"some text">>)}

AffectedValues == {Absent, JArr(<<"rendering">>), JStr(<<"rendering">>)}

ConfidenceValues ==
    {Absent, JNum(-1), JNum(0), JNum(100), JNum(101), JStr(<<"9", "0">>)}

ExtraValues == {Absent, JStr(<<"some text">>)}

Objects ==
    [issue_id : IssueIdValues, is_critical : IsCriticalValues,
     severity_level : SeverityValues, reasoning : TextValues,
     affected_functionality : AffectedValues, impact_description : TextValues,
     confidence_score : ConfidenceValues, extra_field : ExtraValues]

Outcomes ==
    {Rejects, EmptyContent, NotJson, JsonValue(JNull), JsonValue(JNum(7))}
        \cup {JsonObject(o) : o \in Objects}

ClassifyNumbers == {7, 42}

(***************************************************************************)
(* The states in which a part of the program is not running.               *)
(***************************************************************************)
ClassifyIdle ==
    /\ request = NoRequest
    /\ outcome = NoOutcome
    /\ settled = Pending

BatchIdle ==
    /\ requests = <<>>
    /\ i = 0
    /\ batchPromises = <<>>
    /\ results = <<>>
    /\ bpc = "idle"
    /\ replies = <<>>
    /\ outOfOrder = FALSE
    /\ calls = <<>>
    /\ delays = 0
    /\ chunks = 0

SearchPending == [status |-> "pending", value |-> <<>>, reason |-> NoError]

NoOptions == [maxIssues |-> Absent, includeClosedIssues |-> FALSE]

NoResponse == [kind |-> "none", items |-> <<>>]

SearchIdle ==
    /\ searchOptions = NoOptions
    /\ searchResponse = NoResponse
    /\ searchQuery = <<>>
    /\ searchReturn = SearchPending

\* A summary: the three lists, each present or absent; isObject is false for
\* a summary that is no object at all.
SList(texts) == [type |-> "array", s |-> texts]

SAbsent == [type |-> "absent", s |-> <<>>]

Summary(most, common, actions) ==
    [isObject |-> TRUE, most_critical_issues |-> most, common_problems |-> common,
     recommended_actions |-> actions]

NotAnObject ==
    [isObject |-> FALSE, most_critical_issues |-> SAbsent, common_problems |-> SAbsent,
     recommended_actions |-> SAbsent]

NoSummary == Summary(SAbsent, SAbsent, SAbsent)

\* What the chat-completions call of the summary does: as for analyzeIssue,
\* with the parsed value a summary.
SummaryOutcome(kind, value) == [kind |-> kind, value |-> value]

NoSummaryOutcome == SummaryOutcome("none", NoSummary)

\* The result of generateMarkdownReport: the lines of the document, each a
\* sequence of tokens, or the error thrown while rendering.
RenderThrew(e) == [threw |-> TRUE, error |-> e, lines |-> <<>>]

Rendered(lines) == [threw |-> FALSE, error |-> NoError, lines |-> lines]

NoDocument == Rendered(<<>>)

NoReport ==
    [component_name |-> "", analysis_date |-> "", total_issues |-> 0,
     critical_issues |-> 0, high_priority_issues |-> 0, issues |-> <<>>,
     summary |-> NoSummary]

\* The counts of the 'Analysis complete' message; made is false before it.
Announcement(criticalCount, highCount) ==
    [made |-> TRUE, criticalCount |-> criticalCount, highCount |-> highCount]

NoAnnouncement == [made |-> FALSE, criticalCount |-> 0, highCount |-> 0]

AnalyzerIdle ==
    /\ options = NoOptions
    /\ pc = "idle"
    /\ issues = <<>>
    /\ analyses = <<>>
    /\ summary = NoSummary
    /\ report = NoReport
    /\ summaryReply = NoSummaryOutcome
    /\ failure = NoError
    /\ markdown = NoDocument
    /\ announced = NoAnnouncement

\* A path: the directory and the file name, the name a sequence of tokens.
Path(dir, file) == [dir |-> dir, file |-> file]

NoPath == Path("", <<>>)

\* The result of getAnalysisStats; a number with one decimal is kept as its
\* tenths.
Stats(critical, high, confidence) ==
    [criticalPercentage |-> critical, highPriorityPercentage |-> high,
     avgConfidence |-> confidence]

NoStats == Stats(-1, -1, -1)

\* The environment and arguments of the analyze command: OPENAI_API_KEY and
\* the --output option (NoPath when it is not given).
NoEnv == [apiKey |-> <<>>, outputFile |-> NoPath]

\* A file written: its path and its content, the lines of the document or
\* the report serialized.
File(path, lines, data) == [path |-> path, lines |-> lines, data |-> data]

CliIdle ==
    /\ env = NoEnv
    /\ cpc = "idle"
    /\ exitCode = -1
    /\ files = <<>>
    /\ stats = NoStats
    /\ saveError = NoError
    /\ fsFault = "none"

(***************************************************************************)
(* Specification of one analyzeIssue call.                                 *)
(***************************************************************************)
InitClassify ==
    /\ request \in {RequestFor("button", x) : x \in ClassifyNumbers}
    /\ outcome = NoOutcome
    /\ settled = Pending
    /\ BatchIdle
    /\ SearchIdle
    /\ AnalyzerIdle
    /\ CliIdle

AnalyzeIssueCall ==
    /\ settled.status = "pending"
    /\ \E out \in Outcomes :
        /\ outcome' = out
        /\ settled' = analyzeIssue(request, out)
    /\ UNCHANGED <<request, batchVars, searchVars, analyzerVars, cliVars>>

NextClassify == AnalyzeIssueCall

SpecClassify == InitClassify /\ [][NextClassify]_vars

(***************************************************************************)
(* Claims about analyzeIssue, checked under SpecClassify.                  *)
(***************************************************************************)
Returns == settled.status # "pending"

\* The canonical fallback: not critical, medium severity, confidence 0.
IsCanonicalFallback(v) ==
    /\ v.is_critical = JBool(FALSE)
    /\ v.severity_level = JStr(<<"medium">>)
    /\ v.confidence_score = JNum(0)
    /\ v.affected_functionality = JArr(<<"unknown">>)
    /\ v.reasoning.type = "string"
    /\ Len(v.reasoning.s) > 0
    /\ v.reasoning.s[1] \in {"Failed to analyze with OpenAI: ", "Analysis failed: "}

LacksRequiredField(out) ==
    out.kind = "object" /\ \E k \in DOMAIN required : out.object[required[k]] = Absent

SeverityOutOfEnumeration(out) ==
    /\ out.kind = "object"
    /\ out.object.severity_level \notin {JStr(<<"low">>), JStr(<<"medium">>),
                                         JStr(<<"high">>), JStr(<<"critical">>)}

ConfidenceOutOfRange(out) ==
    /\ out.kind = "object"
    /\ \/ out.object.confidence_score.type # "number"
       \/ out.object.confidence_score.n < 0
       \/ out.object.confidence_score.n > 100

\* The failures of the claim: transport failure, empty content, unparseable
\* content, a missing field, an invalid severity token, a confidence out of range.
IsFailure(out) ==
    \/ out.kind \in {"reject", "empty", "text", "json"}
    \/ LacksRequiredField(out)
    \/ SeverityOutOfEnumeration(out)
    \/ ConfidenceOutOfRange(out)

\* The sets of tokens, one of which a text naming the failure of `out` holds.
FailureCauses(out) ==
    (IF out.kind = "reject" THEN {{"Connection error."}} ELSE {})
    \cup (IF out.kind = "empty" THEN {{"No response content from OpenAI"}} ELSE {})
    \cup (IF out.kind = "text" THEN {{"SyntaxError"}} ELSE {})
    \cup (IF out.kind = "json" THEN {{"TypeError"}} ELSE {})
    \cup (IF LacksRequiredField(out)
          THEN {{"Missing required fields in analysis: "} \cup
                {required[k] : k \in {j \in DOMAIN required :
                                        out.object[required[j]] = Absent}}}
          ELSE {})
    \cup (IF SeverityOutOfEnumeration(out) THEN {{"Invalid severity_level: "}} ELSE {})
    \cup (IF ConfidenceOutOfRange(out) THEN {{"Invalid confidence_score: "}} ELSE {})

\* C2: analyzeIssue never raises: for every backend outcome the promise it
\* returns is fulfilled with an analysis, and when the outcome is a failure
\* (transport failure, empty or unparseable content, missing field, invalid
\* severity token, confidence out of range) the reasoning text of the result
\* names a cause of the failure.
C2_NeverRaisesAndNamesCause ==
    Returns =>
        /\ settled.status = "fulfilled"
        /\ IsFailure(outcome) =>
            /\ settled.value.reasoning.type = "string"
            /\ \E cause \in FailureCauses(outcome) :
                   cause \subseteq Range(settled.value.reasoning.s)

C2_Witness ==
    /\ Returns
    /\ ConfidenceOutOfRange(outcome)
    /\ ~LacksRequiredField(outcome)
    /\ ~SeverityOutOfEnumeration(outcome)
    /\ "Invalid confidence_score: " \in Range(settled.value.reasoning.s)

\* C3: every analysis analyzeIssue returns has severity_level in {low, medium,
\* high, critical} and a confidence_score with 0 <= confidence_score <= 100;
\* a backend response violating either bound is replaced by the canonical
\* fallback (is_critical = false, severity_level = medium, confidence_score = 0).
C3_SeverityAndConfidenceBounds ==
    Returns =>
        /\ settled.value.severity_level \in
               {JStr(<<SeverityLevels[k]>>) : k \in DOMAIN SeverityLevels}
        /\ settled.value.confidence_score.type = "number"
        /\ settled.value.confidence_score.n >= 0
        /\ settled.value.confidence_score.n <= 100
        /\ (SeverityOutOfEnumeration(outcome) \/ ConfidenceOutOfRange(outcome))
               => IsCanonicalFallback(settled.value)

C3_Witness ==
    /\ Returns
    /\ outcome.kind = "object"
    /\ ~LacksRequiredField(outcome)
    /\ ~SeverityOutOfEnumeration(outcome)
    /\ outcome.object.confidence_score = JNum(101)
    /\ IsCanonicalFallback(settled.value)

\* C4: a backend response that lacks any one of the seven required fields is
\* a failure and yields the fallback result; the response is not returned with
\* the missing field filled in.
C4_MissingFieldYieldsFallback ==
    (Returns /\ LacksRequiredField(outcome)) =>
        /\ IsCanonicalFallback(settled.value)
        /\ settled.value.issue_id = ParseInt(LastSegment(request.issue_url))
        /\ settled.value.reasoning.s[1] = "Failed to analyze with OpenAI: "

C4_Witness ==
    /\ Returns
    /\ outcome.kind = "object"
    /\ outcome.object.impact_description = Absent
    /\ \A k \in DOMAIN required :
           required[k] # "impact_description" => outcome.object[required[k]] # Absent
    /\ outcome.object.severity_level = JStr(<<"critical">>)
    /\ outcome.object.confidence_score = JNum(100)
    /\ IsCanonicalFallback(settled.value)

\* A deviation of the response from the IssueAnalysis shape: a property the
\* interface does not have, a non-boolean is_critical, a non-list
\* affected_functionality.
ShapeDeviation(out) ==
    /\ out.kind = "object"
    /\ \/ out.object.extra_field # Absent
       \/ out.object.is_critical.type \notin {"boolean", "absent"}
       \/ out.object.affected_functionality.type \notin {"array", "absent"}

\* C5: any shape deviation of the backend response from a JSON object with
\* exactly the seven IssueAnalysis fields (an extra field, a non-boolean
\* is_critical, a non-list affected_functionality) is a classification failure
\* and yields the fallback result.
C5_ShapeDeviationYieldsFallback ==
    (Returns /\ ShapeDeviation(outcome)) => IsCanonicalFallback(settled.value)

(***************************************************************************)
(* OpenAIService.analyzeIssuesBatch                                        *)
(***************************************************************************)
batchSize == 5

Min(a, b) == IF a < b THEN a ELSE b

\* Array.prototype.slice(from, to) for 0 <= from <= to, on 0-based indices.
Slice(seq, from, to) == SubSeq(seq, from + 1, Min(to, Len(seq)))

\* The fallback analysis pushed for a rejected promise.
BatchFallbackAnalysis(req, reason) ==
    [issue_id               |-> ParseInt(LastSegment(req.issue_url)),
     is_critical            |-> JBool(FALSE),
     severity_level         |-> JStr(<<"medium">>),
     reasoning              |-> JStr(<<"Analysis failed: ">> \o ErrorText(reason)),
     affected_functionality |-> JArr(<<"unknown">>),
     impact_description     |-> JStr(<<"Unable to determine impact due to analysis failure">>),
     confidence_score       |-> JNum(0),
     extra_field            |-> Absent]

\* Mutant of Collect: the results of a chunk are added last to first.
CollectReversed(promises, batch) ==
    [k \in 1..Len(promises) |->
        LET j == Len(promises) + 1 - k
        IN  IF promises[j].status = "fulfilled"
            THEN promises[j].value
            ELSE BatchFallbackAnalysis(batch[j], promises[j].reason)]

\* batchResults.forEach(...): what the settled promises of a chunk add to results.
Collect(promises, batch) ==
    [k \in 1..Len(promises) |->
        IF promises[k].status = "fulfilled"
        THEN promises[k].value
        ELSE BatchFallbackAnalysis(batch[k], promises[k].reason)]

\* A valid IssueAnalysis object.
Analysis(id, critical, severity, confidence) ==
    [issue_id               |-> JNum(id),
     is_critical            |-> JBool(critical),
     severity_level         |-> JStr(<<severity>>),
     reasoning              |-> JStr(<<"some text">>),
     affected_functionality |-> JArr(<<"rendering">>),
     impact_description     |-> JStr(<<"some text">>),
     confidence_score       |-> JNum(confidence),
     extra_field            |-> Absent]

\* The backend outcomes the calls of a batch are checked against: two valid
\* responses, a transport failure and a response that fails validation.
BatchOutcomes ==
    {JsonObject(Analysis(41, TRUE, "high", 90)),
     JsonObject(Analysis(41, FALSE, "low", 60)),
     Rejects,
     JsonObject([Analysis(41, FALSE, "high", 90) EXCEPT
                    !.severity_level = JStr(<<"urgent">>)])}

\* The backend outcomes of the calls of a whole run: two valid responses and
\* a transport failure.
RunOutcomes ==
    {JsonObject(Analysis(41, TRUE, "high", 90)),
     JsonObject(Analysis(41, FALSE, "low", 60)),
     Rejects}

\* The current chunk: requests.slice(i, i + batchSize).
Batch == Slice(requests, i, i + batchSize)

\* The loop test holds: slice the chunk and call analyzeIssue for each of its
\* requests; every call runs to its await of create().  Then await allSettled.
StartChunk ==
    /\ bpc = "loop"
    /\ i < Len(requests)
    /\ batchPromises' = [k \in 1..Len(Batch) |-> Pending]
    /\ calls' = [k \in DOMAIN calls |->
                    IF k \in (i + 1)..(i + Len(Batch)) THEN calls[k] + 1 ELSE calls[k]]
    /\ bpc' = "await"
    /\ chunks' = chunks + 1
    /\ UNCHANGED <<requests, i, results, replies, outOfOrder, delays>>
    /\ UNCHANGED <<classifyVars, searchVars, analyzerVars, cliVars>>

\* The backend answers the call made for the k-th request of the chunk with
\* one of the outcomes outs, and analyzeIssue runs to its end.
Settle(k, outs) ==
    /\ bpc = "await"
    /\ k \in DOMAIN batchPromises
    /\ batchPromises[k].status = "pending"
    /\ \E out \in outs :
        /\ batchPromises' = [batchPromises EXCEPT ![k] = analyzeIssue(Batch[k], out)]
        /\ replies' = [replies EXCEPT ![i + k] = out]
    /\ outOfOrder' = (outOfOrder \/ \E j \in 1..(k - 1) : batchPromises[j].status = "pending")
    /\ UNCHANGED <<requests, i, results, bpc, calls, delays, chunks>>
    /\ UNCHANGED <<classifyVars, searchVars, analyzerVars, cliVars>>

\* Mutant of AllSettled: the await ends as soon as one promise has settled.
AllSettledAny ==
    /\ bpc = "await"
    /\ \E k \in DOMAIN batchPromises : batchPromises[k].status # "pending"
    /\ results' = results \o Collect(batchPromises, Batch)
    /\ IF i + batchSize < Len(requests)
       THEN bpc' = "delay" /\ i' = i
       ELSE bpc' = "loop" /\ i' = i + batchSize
    /\ UNCHANGED <<requests, batchPromises, replies, outOfOrder, calls, delays, chunks>>
    /\ UNCHANGED <<classifyVars, searchVars, analyzerVars, cliVars>>

\* Mutant of AllSettled: the delay is also taken when the chunk ends exactly
\* at the end of the requests.
AllSettledDelayAfterLast ==
    /\ bpc = "await"
    /\ \A k \in DOMAIN batchPromises : batchPromises[k].status # "pending"
    /\ results' = results \o Collect(batchPromises, Batch)
    /\ IF i + batchSize <= Len(requests)
       THEN bpc' = "delay" /\ i' = i
       ELSE bpc' = "loop" /\ i' = i + batchSize
    /\ UNCHANGED <<requests, batchPromises, replies, outOfOrder, calls, delays, chunks>>
    /\ UNCHANGED <<classifyVars, searchVars, analyzerVars, cliVars>>

\* Mutant of AllSettled: a chunk in which a promise was rejected is run again.
AllSettledRetrying ==
    /\ bpc = "await"
    /\ \A k \in DOMAIN batchPromises : batchPromises[k].status # "pending"
    /\ IF \E k \in DOMAIN batchPromises :
              batchPromises[k].value.reasoning.s[1] = "Failed to analyze with OpenAI: "
       THEN /\ bpc' = "loop"
            /\ UNCHANGED <<results, i>>
       ELSE /\ results' = results \o Collect(batchPromises, Batch)
            /\ IF i + batchSize < Len(requests)
               THEN bpc' = "delay" /\ i' = i
               ELSE bpc' = "loop" /\ i' = i + batchSize
    /\ UNCHANGED <<requests, batchPromises, replies, outOfOrder, calls, delays, chunks>>
    /\ UNCHANGED <<classifyVars, searchVars, analyzerVars, cliVars>>

\* Promise.allSettled resolves: collect the chunk, then either wait for the
\* delay or go on to the loop test.
AllSettled ==
    /\ bpc = "await"
    /\ \A k \in DOMAIN batchPromises : batchPromises[k].status # "pending"
    /\ results' = results \o Collect(batchPromises, Batch)
    /\ IF i + batchSize < Len(requests)
       THEN bpc' = "delay" /\ i' = i
       ELSE bpc' = "loop" /\ i' = i + batchSize
    /\ UNCHANGED <<requests, batchPromises, replies, outOfOrder, calls, delays, chunks>>
    /\ UNCHANGED <<classifyVars, searchVars, analyzerVars, cliVars>>

\* Mutant of DelayElapsed: the timer of the delay never fires.
DelayNeverElapses ==
    /\ bpc = "delay"
    /\ FALSE
    /\ UNCHANGED vars

\* The timer of the delay between chunks fires.
DelayElapsed ==
    /\ bpc = "delay"
    /\ i' = i + batchSize
    /\ bpc' = "loop"
    /\ delays' = delays + 1
    /\ UNCHANGED <<requests, batchPromises, results, replies, outOfOrder, calls, chunks>>
    /\ UNCHANGED <<classifyVars, searchVars, analyzerVars, cliVars>>

\* The loop test fails: return results.
ReturnResults ==
    /\ bpc = "loop"
    /\ i >= Len(requests)
    /\ bpc' = "returned"
    /\ UNCHANGED <<requests, i, batchPromises, results, replies, outOfOrder, calls, delays,
                   chunks>>
    /\ UNCHANGED <<classifyVars, searchVars, analyzerVars, cliVars>>

(***************************************************************************)
(* Specification of one analyzeIssuesBatch call.                           *)
(***************************************************************************)
MaxRequests == 6

\* The number of the k-th issue of a run.
IssueNumber(k) == 10 * k + 2

InitBatch ==
    /\ ClassifyIdle
    /\ SearchIdle
    /\ AnalyzerIdle
    /\ CliIdle
    /\ \E len \in 0..MaxRequests :
        /\ requests = [k \in 1..len |-> RequestFor("button", IssueNumber(k))]
        /\ replies = [k \in 1..len |-> NoOutcome]
        /\ calls = [k \in 1..len |-> 0]
    /\ i = 0
    /\ batchPromises = <<>>
    /\ results = <<>>
    /\ bpc = "loop"
    /\ outOfOrder = FALSE
    /\ delays = 0
    /\ chunks = 0

NextBatch ==
    \/ StartChunk
    \/ \E k \in 1..batchSize : Settle(k, BatchOutcomes)
    \/ AllSettled
    \/ DelayElapsed
    \/ ReturnResults

SpecBatch == InitBatch /\ [][NextBatch]_vars

\* C1: for every request sequence of length N (N = 0 and N not a multiple of
\* 5 included) analyzeIssuesBatch returns exactly N results, and result k is
\* the result analyzeIssue produced for request k, whatever order the
\* concurrent calls of a chunk completed in.
C1_BatchPreservesLengthAndOrder ==
    bpc = "returned" =>
        /\ Len(results) = Len(requests)
        /\ \A k \in DOMAIN requests :
               results[k] = analyzeIssue(requests[k], replies[k]).value

C1_Witness ==
    /\ bpc = "returned"
    /\ Len(requests) = 6
    /\ outOfOrder
    /\ Len(results) = 6
    /\ replies[2] = Rejects
    /\ replies[3] # Rejects

\* C6: when a classification call in a chunk fails, the batch still returns
\* one entry per request, the entry of the failed request is the fallback
\* value for that request, and the entry of every other request is the real
\* backend response to its own call.
C6_FailureIsolation ==
    bpc = "returned" =>
        /\ Len(results) = Len(requests)
        /\ \A k \in DOMAIN requests :
               IF IsFailure(replies[k])
               THEN /\ IsCanonicalFallback(results[k])
                    /\ results[k].issue_id = JNum(IssueNumber(k))
               ELSE results[k] = replies[k].object

C6_Witness ==
    /\ bpc = "returned"
    /\ Len(requests) = 5
    /\ Len(results) = 5
    /\ replies[3] = Rejects
    /\ \A k \in {1, 2, 4, 5} : ~IsFailure(replies[k]) /\ results[k] = replies[k].object
    /\ replies[1] # replies[2]

(***************************************************************************)
(* Specification of one analyzeIssuesBatch call over several chunks: the   *)
(* backend answers every call with a valid response or a transport failure.*)
(***************************************************************************)
MaxScheduled == 11

ScheduleOutcomes == {JsonObject(Analysis(41, TRUE, "high", 90)), Rejects}

InitSchedule ==
    /\ ClassifyIdle
    /\ SearchIdle
    /\ AnalyzerIdle
    /\ CliIdle
    /\ \E len \in 0..MaxScheduled :
        /\ requests = [k \in 1..len |-> RequestFor("button", IssueNumber(k))]
        /\ replies = [k \in 1..len |-> NoOutcome]
        /\ calls = [k \in 1..len |-> 0]
    /\ i = 0
    /\ batchPromises = <<>>
    /\ results = <<>>
    /\ bpc = "loop"
    /\ outOfOrder = FALSE
    /\ delays = 0
    /\ chunks = 0

NextSchedule ==
    \/ StartChunk
    \/ \E k \in 1..batchSize : Settle(k, ScheduleOutcomes)
    \/ AllSettled
    \/ DelayElapsed
    \/ ReturnResults

SpecSchedule == InitSchedule /\ [][NextSchedule]_vars

\* The requests whose call has been issued and has not settled.
InFlight == {k \in DOMAIN requests : calls[k] > 0 /\ replies[k] = NoOutcome}

\* The chunk of the k-th request, counted from 0, for chunks of five.
ChunkOf(k) == (k - 1) \div 5

\* C15: during analyzeIssuesBatch at most 5 classification calls are in
\* flight at any moment; no call of a later chunk is issued before every call
\* of the chunks before it has settled; and the results of a chunk are in the
\* output only after the whole chunk has settled.
C15_BoundedFanOut ==
    /\ Cardinality(InFlight) <= 5
    /\ \A j, k \in DOMAIN requests :
           (ChunkOf(j) < ChunkOf(k) /\ calls[k] > 0) => replies[j] # NoOutcome
    /\ Len(results) <= Len(requests)
    /\ \A k \in DOMAIN results :
           \A j \in DOMAIN requests : ChunkOf(j) = ChunkOf(k) => replies[j] # NoOutcome

C15_Witness ==
    /\ Len(requests) = 11
    /\ Cardinality(InFlight) = 5
    /\ Len(results) = 5
    /\ calls[10] = 1
    /\ calls[11] = 0

\* The chunks of which a call has been issued.
ChunksStarted == {ChunkOf(k) : k \in {j \in DOMAIN requests : calls[j] > 0}}

\* C16: between every two consecutive chunks the delay elapses, after the
\* earlier chunk settled and before the first call of the later chunk is
\* issued; for N requests there are exactly ceil(N/5) - 1 delays, none for
\* N <= 5, and no delay follows the last chunk.
C16_DelaysBetweenChunks ==
    /\ \A c \in ChunksStarted : delays >= c
    /\ delays <= Cardinality(ChunksStarted)
    /\ \A k \in DOMAIN requests : k <= 5 * delays => replies[k] # NoOutcome
    /\ 5 * delays < Len(requests) \/ delays = 0
    /\ bpc = "returned" =>
           delays = IF Len(requests) <= 5 THEN 0 ELSE (Len(requests) + 4) \div 5 - 1

C16_Witness ==
    /\ bpc = "returned"
    /\ Len(requests) = 11
    /\ delays = 2
    /\ Len(results) = 11

\* C17: no retries: each classification request causes exactly one call to
\* the classification backend, whether the call succeeds or fails; a failed
\* call becomes a fallback result and is not issued again.
C17_NoRetries ==
    /\ \A k \in DOMAIN requests : calls[k] <= 1
    /\ \A k \in DOMAIN requests : replies[k] # NoOutcome => calls[k] = 1
    /\ bpc = "returned" =>
           \A k \in DOMAIN requests :
               /\ calls[k] = 1
               /\ IsFailure(replies[k]) => IsCanonicalFallback(results[k])

C17_Witness ==
    /\ bpc = "returned"
    /\ Len(requests) = 6
    /\ replies[2] = Rejects
    /\ IsCanonicalFallback(results[2])
    /\ calls[2] = 1
    /\ ~IsFailure(replies[6])

\* The component every run of the model analyzes.
ComponentName == "button"

(***************************************************************************)
(* GitHubService.searchComponentIssues                                     *)
(***************************************************************************)
DefaultMaxIssues == 100

\* const { maxIssues = 100, includeClosedIssues = false } = options
MaxIssuesOf(opts) ==
    IF opts.maxIssues = Absent THEN DefaultMaxIssues ELSE opts.maxIssues.n

\* options.state || (includeClosedIssues ? 'all' : 'open')
StateOf(opts) == IF opts.includeClosedIssues THEN "all" ELSE "open"

\* The search queries: one, which does not use the state computed above.
searchQueries(componentName) ==
    << <<"repo:shadcn-ui/ui", "is:issue", "state:open", componentName>> >>

\* Mutant of FilterItems: pull requests are not filtered out.
FilterItemsKeepingPullRequests(items, seenIssues) ==
    SelectSeq(items, LAMBDA item : item.number \notin seenIssues)

\* response.data.items.filter(...): seenIssues is read for every item before
\* the following map adds the first number to it.
FilterItems(items, seenIssues) ==
    SelectSeq(items, LAMBDA item : ~item.pull_request /\ item.number \notin seenIssues)

MapItems(items) == [k \in DOMAIN items |-> transformIssue(items[k])]

SearchFulfilled(v) == [status |-> "fulfilled", value |-> v, reason |-> NoError]

SearchRejected(e) == [status |-> "rejected", value |-> <<>>, reason |-> e]

\* Mutant of searchComponentIssues: the catch block returns no issues instead
\* of rethrowing.
searchComponentIssuesSwallows(opts, response) ==
    IF response.kind = "reject"
    THEN SearchFulfilled(<<>>)
    ELSE LET seenIssues == {}
             allIssues  == MapItems(FilterItems(response.items, seenIssues))
         IN  SearchFulfilled(Slice(allIssues, 0, MaxIssuesOf(opts)))

\* The promise searchComponentIssues returns, settled: the loop over the one
\* query, then allIssues.slice(0, maxIssues); a rejected request is rethrown.
searchComponentIssues(opts, response) ==
    IF response.kind = "reject"
    THEN SearchRejected(Error("Error",
            <<"Failed to search GitHub issues: ">>
                \o ErrorText(Error("HttpError", <<"Bad credentials">>))))
    ELSE LET seenIssues == {}
             allIssues  == MapItems(FilterItems(response.items, seenIssues))
         IN  SearchFulfilled(Slice(allIssues, 0, MaxIssuesOf(opts)))

\* searchComponentIssues is called and sends its query.
SendQuery ==
    /\ searchQuery = <<>>
    /\ searchQuery' = searchQueries(ComponentName)[1]
    /\ UNCHANGED <<searchResponse, searchReturn>>

\* The search backend answers and searchComponentIssues runs to its end.
SearchCompletes ==
    /\ searchQuery # <<>>
    /\ searchReturn.status = "pending"
    /\ searchReturn' = searchComponentIssues(searchOptions, searchResponse)
    /\ UNCHANGED <<searchOptions, searchResponse, searchQuery>>
    /\ UNCHANGED <<classifyVars, batchVars, analyzerVars, cliVars>>

(***************************************************************************)
(* Specification of one searchComponentIssues call.                        *)
(***************************************************************************)
MaxItems == 3

MaxNumber == 2

MaxLimit == 3

Items == {Item(x, pr) : x \in 1..MaxNumber, pr \in BOOLEAN}

SeqsUpTo(S, len) == UNION {[1..m -> S] : m \in 0..len}

Responses ==
    {[kind |-> "reject", items |-> <<>>]}
        \cup {[kind |-> "items", items |-> s] : s \in SeqsUpTo(Items, MaxItems)}

InitSearch ==
    /\ ClassifyIdle
    /\ BatchIdle
    /\ AnalyzerIdle
    /\ CliIdle
    /\ searchOptions \in
           [maxIssues : {Absent} \cup {JNum(x) : x \in 0..MaxLimit},
            includeClosedIssues : BOOLEAN]
    /\ searchResponse \in Responses
    /\ searchQuery = <<>>
    /\ searchReturn = SearchPending

SearchRequest ==
    /\ SendQuery
    /\ UNCHANGED searchOptions
    /\ UNCHANGED <<classifyVars, batchVars, analyzerVars, cliVars>>

NextSearch ==
    \/ SearchRequest
    \/ SearchCompletes

SpecSearch == InitSearch /\ [][NextSearch]_vars

\* The returned issues are items of the response, in the response's order:
\* some strictly increasing choice of positions of the response gives them.
IsOrderedSelection(found, items, chosen) ==
    /\ Cardinality(chosen) = Len(found)
    /\ \A k \in DOMAIN found :
           \E pos \in chosen :
               /\ Cardinality({q \in chosen : q <= pos}) = k
               /\ found[k].number = items[pos].number
               /\ found[k].html_url = items[pos].html_url
               /\ ~items[pos].pull_request

\* C10: for every search response and every max-results value >= 0,
\* searchComponentIssues returns at most max-results issues, in the order the
\* backend returned them, none of them an item flagged as a pull request.
C10_SearchCappedOrderedNoPullRequests ==
    searchReturn.status = "fulfilled" =>
        /\ Len(searchReturn.value) <= MaxIssuesOf(searchOptions)
        /\ \E chosen \in SUBSET DOMAIN searchResponse.items :
               IsOrderedSelection(searchReturn.value, searchResponse.items, chosen)

C10_Witness ==
    /\ searchReturn.status = "fulfilled"
    /\ searchOptions.maxIssues = JNum(1)
    /\ Len(searchResponse.items) = 3
    /\ searchResponse.items[1].pull_request
    /\ ~searchResponse.items[2].pull_request
    /\ ~searchResponse.items[3].pull_request
    /\ searchResponse.items[2].number # searchResponse.items[3].number
    /\ Len(searchReturn.value) = 1
    /\ searchReturn.value[1].number = searchResponse.items[2].number

\* C11: the sequence one searchComponentIssues call returns is deduplicated:
\* no two returned issues share a number, also when the response of the
\* backend holds the same issue more than once.
C11_SearchDeduplicated ==
    searchReturn.status = "fulfilled" =>
        \A j, k \in DOMAIN searchReturn.value :
            j # k => searchReturn.value[j].number # searchReturn.value[k].number

\* The issue states a query covers: its state: qualifier restricts them.
CoversOpen(query) == "state:closed" \notin Range(query)

CoversClosed(query) == "state:open" \notin Range(query)

\* C12: the include-closed option takes effect: the query sent to the backend
\* covers closed issues as well as open ones when includeClosedIssues is set,
\* and open issues only when it is not.
C12_IncludeClosedTakesEffect ==
    searchQuery # <<>> =>
        /\ CoversOpen(searchQuery)
        /\ CoversClosed(searchQuery) <=> searchOptions.includeClosedIssues

(***************************************************************************)
(* OpenAIService.generateComponentSummary and ShadcnIssueAnalyzer          *)
(***************************************************************************)
\* Mutant of IsCriticalPair: is_critical is not looked at.
IsCriticalPairBySeverityOnly(a) == a.analysis.severity_level = JStr(<<"critical">>)

\* a.analysis.is_critical || a.analysis.severity_level === 'critical'
IsCriticalPair(a) ==
    Truthy(a.analysis.is_critical) \/ a.analysis.severity_level = JStr(<<"critical">>)

\* Mutant of IsHighPriorityPair: is_critical is not looked at.
IsHighPriorityPairBySeverityOnly(a) == a.analysis.severity_level = JStr(<<"high">>)

\* a.analysis.severity_level === 'high' && !a.analysis.is_critical
IsHighPriorityPair(a) ==
    a.analysis.severity_level = JStr(<<"high">>) /\ ~Truthy(a.analysis.is_critical)

\* Mutant of SummaryFallback: the critical titles are not cut to three.
SummaryFallbackAllCritical(pairs) ==
    LET criticalAnalyses == SelectSeq(pairs, IsCriticalPair)
    IN  Summary(SList([k \in DOMAIN criticalAnalyses |->
                          criticalAnalyses[k].github_issue.title]),
                SList(<< <<"Unable to analyze common problems due to API error">> >>),
                SList(<< <<"Manual review of issues recommended due to analysis failure">> >>))

\* The summary generateComponentSummary returns when its call fails.
SummaryFallback(pairs) ==
    LET criticalAnalyses == SelectSeq(pairs, IsCriticalPair)
        top == Slice(criticalAnalyses, 0, 3)
    IN  Summary(SList([k \in DOMAIN top |-> top[k].github_issue.title]),
                SList(<< <<"Unable to analyze common problems due to API error">> >>),
                SList(<< <<"Manual review of issues recommended due to analysis failure">> >>))

\* The outcomes of the summary call a run is checked against.
SummaryOutcomes ==
    {SummaryOutcome("reject", NoSummary),
     SummaryOutcome("empty", NoSummary),
     SummaryOutcome("text", NoSummary),
     SummaryOutcome("json", NotAnObject),
     SummaryOutcome("object",
        Summary(SList(<< <<"some text">> >>), SList(<< <<"some text">> >>),
                SList(<< <<"some text">> >>))),
     SummaryOutcome("object",
        Summary(SList(<<>>), SList(<< <<"some text">> >>), SAbsent))}

\* generateComponentSummary: JSON.parse(content) as it is, or the fallback.
generateComponentSummary(componentName, pairs, out) ==
    IF out.kind \in {"reject", "empty", "text"}
    THEN SummaryFallback(pairs)
    ELSE out.value

\* ShadcnIssueAnalyzer.generateSummary: generateComponentSummary never
\* rejects, so the catch block is not entered.
generateSummary(component, pairs, out) == generateComponentSummary(component, pairs, out)

\* ShadcnIssueAnalyzer.createReport
createReport(component, found, pairs, sum, now) ==
    [component_name       |-> component,
     analysis_date        |-> now,
     total_issues         |-> Len(found),
     critical_issues      |-> Len(SelectSeq(pairs, IsCriticalPair)),
     high_priority_issues |-> Len(SelectSeq(pairs, IsHighPriorityPair)),
     issues               |-> pairs,
     summary              |-> sum]

\* Mutant of createEmptyReport: the summary has no recommended action.
createEmptyReportNoAdvice(component, now) ==
    [component_name       |-> component,
     analysis_date        |-> now,
     total_issues         |-> 0,
     critical_issues      |-> 0,
     high_priority_issues |-> 0,
     issues               |-> <<>>,
     summary              |-> Summary(SList(<<>>), SList(<<>>), SList(<<>>))]

\* ShadcnIssueAnalyzer.createEmptyReport
createEmptyReport(component, now) ==
    [component_name       |-> component,
     analysis_date        |-> now,
     total_issues         |-> 0,
     critical_issues      |-> 0,
     high_priority_issues |-> 0,
     issues               |-> <<>>,
     summary              |->
        Summary(SList(<<>>), SList(<<>>),
                SList(<< <<"No issues found for ", component,
                           " component - it appears to be stable!">> >>))]

(***************************************************************************)
(* ReportService.generateMarkdownReport.  The document is the sequence of  *)
(* its non-empty lines, each line a sequence of tokens; the first token of *)
(* a heading line is its marker ("# ", "## ", "### ").  Emoji and the        *)
(* backquote are written by their names.                                   *)
(***************************************************************************)
\* One part of the document after another: the first error thrown ends it.
Then(a, b) ==
    IF a.threw THEN a
    ELSE IF b.threw THEN b
    ELSE Rendered(a.lines \o b.lines)

\* Array.prototype.join over texts.
RECURSIVE Join(_, _)
Join(texts, sep) ==
    IF texts = <<>> THEN <<>>
    ELSE IF Len(texts) = 1 THEN texts[1]
    ELSE texts[1] \o <<sep>> \o Join(Tail(texts), sep)

\* severity_level.toUpperCase()
ToUpperCase(v) ==
    CASE v = JStr(<<"low">>)      -> <<"LOW">>
      [] v = JStr(<<"medium">>)   -> <<"MEDIUM">>
      [] v = JStr(<<"high">>)     -> <<"HIGH">>
      [] v = JStr(<<"critical">>) -> <<"CRITICAL">>
      [] OTHER                    -> <<"toUpperCase of ">> \o ToText(v)

\* new Date(text).toLocaleDateString(): the date in the locale of the host.
ToLocaleDateString(date) == <<"toLocaleDateString of ", date>>

\* The lines of analysis.affected_functionality: length and forEach exist
\* together on an array only.
AffectedLines(v) ==
    CASE v.type = "array" ->
            IF Len(v.s) > 0
            THEN Rendered(<< <<"**Affected Functionality:**">> >>
                          \o [k \in DOMAIN v.s |-> <<"- ", v.s[k]>>])
            ELSE Rendered(<<>>)
      [] v.type = "string" ->
            IF Len(v.s) > 0
            THEN RenderThrew(Error("TypeError",
                    <<"analysis.affected_functionality.forEach is not a function">>))
            ELSE Rendered(<<>>)
      [] v.type = "null" ->
            RenderThrew(Error("TypeError",
                <<"Cannot read properties of null (reading 'length')">>))
      [] OTHER -> Rendered(<<>>)

\* ReportService.formatIssueSection; created_at, updated_at and comments are
\* not among the properties the model keeps of an issue.
formatIssueSection(issue, analysis, index, emoji, compact) ==
    LET entry == <<"### ", emoji, " ">> \o NumText(index) \o <<". [">> \o issue.title
                     \o <<"](">> \o Join(issue.html_url, "/") \o <<")">>
        rule  == << <<"---">> >>
    IN  IF compact
        THEN Rendered(
                << entry,
                   <<"**Severity:** ">> \o ToUpperCase(analysis.severity_level)
                       \o <<" | **Confidence:** ">> \o ToText(analysis.confidence_score)
                       \o <<"%">>,
                   ToText(analysis.reasoning) >> \o rule)
        ELSE Then(Rendered(
                << entry,
                   <<"**Issue #">> \o NumText(issue.number) \o <<"** | **Severity:** ">>
                       \o ToUpperCase(analysis.severity_level)
                       \o <<" | **Confidence:** ">> \o ToText(analysis.confidence_score)
                       \o <<"%">> >>
                \o (IF Len(issue.labels) > 0
                    THEN << <<"**Labels:** ">>
                            \o Join([k \in DOMAIN issue.labels |->
                                        <<":backquote:", issue.labels[k].name, ":backquote:">>], ", ") >>
                    ELSE <<>>)
                \o << <<"**Why this is ">> \o ToText(analysis.severity_level)
                          \o <<" priority:**">>,
                      ToText(analysis.reasoning) >>),
             Then(AffectedLines(analysis.affected_functionality),
                  Rendered(
                    << <<"**Impact:** ">> \o ToText(analysis.impact_description),
                       <<"**Created:** ", "created_at">>,
                       <<"**Updated:** ", "updated_at">>,
                       <<"**Comments:** ", "comments">>,
                       <<"**State:** ", issue.state>> >> \o rule)))

\* pairs.forEach((item, index) => markdown += formatIssueSection(..., index + 1, ...))
RECURSIVE FormatSections(_, _, _, _)
FormatSections(pairs, index, emoji, compact) ==
    IF index > Len(pairs) THEN Rendered(<<>>)
    ELSE Then(formatIssueSection(pairs[index].github_issue, pairs[index].analysis,
                                 index, emoji, compact),
              FormatSections(pairs, index + 1, emoji, compact))

\* One list of the summary under its heading; reading length of a list that
\* is not there throws.
SummaryLines(list, heading) ==
    IF list.type = "absent"
    THEN RenderThrew(Error("TypeError",
            <<"Cannot read properties of undefined (reading 'length')">>))
    ELSE IF Len(list.s) > 0
    THEN Rendered(<< <<"### ", heading>> >> \o [k \in DOMAIN list.s |-> <<"- ">> \o list.s[k]])
    ELSE Rendered(<<>>)

RECURSIVE SumConfidence(_)
SumConfidence(pairs) ==
    IF pairs = <<>> THEN 0
    ELSE Head(pairs).analysis.confidence_score.n + SumConfidence(Tail(pairs))

\* (sum / count).toFixed(1): one decimal, rounded; 0 / 0 is NaN.
ToFixed1(sum, count) ==
    IF count = 0 THEN <<"NaN">>
    ELSE LET tenths == (20 * sum + count) \div (2 * count)
         IN  NumText(tenths \div 10) \o <<".">> \o NumText(tenths % 10)

\* ReportService.getConfidenceDistribution
getConfidenceDistribution(pairs) ==
    LET score(k) == pairs[k].analysis.confidence_score.n
    IN  << <<"High (80-100%)", Cardinality({k \in DOMAIN pairs : score(k) >= 80})>>,
           <<"Medium (60-79%)",
             Cardinality({k \in DOMAIN pairs : score(k) < 80 /\ score(k) >= 60})>>,
           <<"Low (40-59%)",
             Cardinality({k \in DOMAIN pairs : score(k) < 60 /\ score(k) >= 40})>>,
           <<"Very Low (0-39%)", Cardinality({k \in DOMAIN pairs : score(k) < 40})>> >>

generateMarkdownReport(r) ==
    LET criticalIssues ==
            SelectSeq(r.issues, LAMBDA item :
                \/ Truthy(item.analysis.is_critical)
                \/ item.analysis.severity_level = JStr(<<"critical">>))
        highPriorityIssues ==
            SelectSeq(r.issues, LAMBDA item :
                /\ item.analysis.severity_level = JStr(<<"high">>)
                /\ ~Truthy(item.analysis.is_critical))
        mediumPriorityIssues ==
            SelectSeq(r.issues, LAMBDA item : item.analysis.severity_level = JStr(<<"medium">>))
        lowPriorityIssues ==
            SelectSeq(r.issues, LAMBDA item : item.analysis.severity_level = JStr(<<"low">>))
        distribution == getConfidenceDistribution(r.issues)
        header ==
            Rendered(
                << <<"# ", r.component_name, " Component Analysis Report">>,
                   <<"**Generated on:** ">> \o ToLocaleDateString(r.analysis_date),
                   <<"## ", ":bar_chart:", " Summary">>,
                   <<"- **Total Issues Analyzed:** ">> \o NumText(r.total_issues),
                   <<"- **Critical Issues:** ">> \o NumText(r.critical_issues)
                       \o <<" ", ":red_circle:">>,
                   <<"- **High Priority Issues:** ">> \o NumText(r.high_priority_issues)
                       \o <<" ", ":orange_circle:">>,
                   <<"- **Medium/Low Priority Issues:** ">>
                       \o NumText(r.total_issues - r.critical_issues - r.high_priority_issues)
                       \o <<" ", ":yellow_circle:">> >>)
        critical ==
            IF r.critical_issues > 0
            THEN Then(Rendered(
                        << <<"## ", ":rotating_light:", " Critical Issues">>,
                           <<"These issues prevent basic component usage or cause severe problems:">> >>),
                      FormatSections(criticalIssues, 1, ":red_circle:", FALSE))
            ELSE Rendered(<<>>)
        high ==
            IF Len(highPriorityIssues) > 0
            THEN Then(Rendered(
                        << <<"## ", ":warning:", " High Priority Issues">>,
                           <<"These issues significantly impact functionality but don't prevent basic usage:">> >>),
                      FormatSections(highPriorityIssues, 1, ":orange_circle:", FALSE))
            ELSE Rendered(<<>>)
        medium ==
            IF Len(mediumPriorityIssues) > 0
            THEN Then(Rendered(
                        << <<"## ", ":clipboard:", " Medium Priority Issues">>,
                           <<"<details>">>,
                           <<"<summary>Click to expand medium priority issues (">>
                               \o NumText(Len(mediumPriorityIssues))
                               \o <<" issues)</summary>">> >>),
                      Then(FormatSections(mediumPriorityIssues, 1, ":yellow_circle:", TRUE),
                           Rendered(<< <<"</details>">> >>)))
            ELSE Rendered(<<>>)
        low ==
            IF Len(lowPriorityIssues) > 0
            THEN Then(Rendered(
                        << <<"## ", ":memo:", " Low Priority Issues">>,
                           <<"<details>">>,
                           <<"<summary>Click to expand low priority issues (">>
                               \o NumText(Len(lowPriorityIssues))
                               \o <<" issues)</summary>">> >>),
                      Then(FormatSections(lowPriorityIssues, 1, ":green_circle:", TRUE),
                           Rendered(<< <<"</details>">> >>)))
            ELSE Rendered(<<>>)
        analysisSummary ==
            IF ~r.summary.isObject
            THEN RenderThrew(Error("TypeError",
                    <<"Cannot read properties of undefined (reading 'length')">>))
            ELSE Then(Rendered(<< <<"## ", ":mag:", " Analysis Summary">> >>),
                 Then(SummaryLines(r.summary.most_critical_issues, "Most Critical Issues"),
                 Then(SummaryLines(r.summary.common_problems, "Common Problems Identified"),
                      SummaryLines(r.summary.recommended_actions, "Recommended Actions"))))
        confidence ==
            Rendered(
                << <<"## ", ":chart_with_upwards_trend:", " Analysis Confidence">>,
                   <<"**Average Confidence Score:** ">>
                       \o ToFixed1(SumConfidence(r.issues), Len(r.issues)) \o <<"%">>,
                   <<"**Confidence Distribution:**">> >>
                \o [k \in DOMAIN distribution |->
                       <<"- ", distribution[k][1], ": ">> \o NumText(distribution[k][2])
                           \o <<" issues">>])
        footer ==
            Rendered(
                << <<"---">>,
                   <<"*This report was generated automatically using GitHub API and OpenAI analysis.*">>,
                   <<"*Last updated: ", r.analysis_date, "*">> >>)
    IN  Then(header, Then(critical, Then(high, Then(medium, Then(low,
             Then(analysisSummary, Then(confidence, footer)))))))

\* const { component, maxIssues = 50, includeClosedIssues = false } = options
DefaultAnalyzeMaxIssues == 50

\* The instants new Date() may give.
Dates == {"2025-01-01T00:00:00.000Z", "2025-06-30T23:59:59.999Z"}

\* The counts analyzeIssuesWithOpenAI logs: criticalCount and highCount.
Announce(pairs) ==
    Announcement(
        Len(SelectSeq(pairs, LAMBDA r :
                \/ Truthy(r.analysis.is_critical)
                \/ r.analysis.severity_level = JStr(<<"critical">>))),
        Len(SelectSeq(pairs, LAMBDA r : r.analysis.severity_level = JStr(<<"high">>))))

\* Mutant of PairUp: the analyses are taken from the end.
PairUpReversed(found, batchResults) ==
    [k \in DOMAIN found |->
        [github_issue |-> found[k], analysis |-> batchResults[Len(found) + 1 - k]]]

\* results of analyzeIssuesWithOpenAI: issues.map((issue, index) => ...)
PairUp(found, batchResults) ==
    [k \in DOMAIN found |-> [github_issue |-> found[k], analysis |-> batchResults[k]]]

\* analyzeComponent is called: it searches for the issues of the component.
\* (The getRateLimit call before the search catches its own errors and only
\* logs.)
StartAnalysis ==
    /\ pc = "start"
    /\ searchOptions' =
           [maxIssues |-> IF options.maxIssues = Absent
                          THEN JNum(DefaultAnalyzeMaxIssues)
                          ELSE options.maxIssues,
            includeClosedIssues |-> options.includeClosedIssues]
    /\ SendQuery
    /\ pc' = "search"
    /\ UNCHANGED <<options, issues, analyses, summary, report, summaryReply, failure, markdown,
                   announced>>
    /\ UNCHANGED <<classifyVars, batchVars, cliVars>>

\* Mutant of AfterSearch: analyzeComponent does not await the search.
AfterSearchPremature ==
    /\ pc = "search"
    /\ IF searchReturn.status = "rejected"
       THEN /\ pc' = "failed"
            /\ failure' = searchReturn.reason
            /\ UNCHANGED <<issues, report, batchVars>>
       ELSE IF Len(searchReturn.value) = 0
       THEN /\ \E now \in Dates : report' = createEmptyReport(ComponentName, now)
            /\ pc' = "done"
            /\ issues' = searchReturn.value
            /\ UNCHANGED <<failure, batchVars>>
       ELSE /\ issues' = searchReturn.value
            /\ requests' = [k \in DOMAIN searchReturn.value |->
                               RequestFrom(ComponentName, searchReturn.value[k])]
            /\ replies' = [k \in DOMAIN searchReturn.value |-> NoOutcome]
            /\ calls' = [k \in DOMAIN searchReturn.value |-> 0]
            /\ i' = 0
            /\ results' = <<>>
            /\ batchPromises' = <<>>
            /\ bpc' = "loop"
            /\ pc' = "classify"
            /\ UNCHANGED <<report, failure, outOfOrder, delays, chunks>>
    /\ UNCHANGED <<options, analyses, summary, summaryReply, markdown, announced>>
    /\ UNCHANGED <<classifyVars, searchVars, cliVars>>

\* The search promise has settled and analyzeComponent goes on: the error is
\* rethrown, or the empty report returned, or the batch of requests started.
AfterSearch ==
    /\ pc = "search"
    /\ searchReturn.status # "pending"
    /\ IF searchReturn.status = "rejected"
       THEN /\ pc' = "failed"
            /\ failure' = searchReturn.reason
            /\ UNCHANGED <<issues, report, batchVars>>
       ELSE IF Len(searchReturn.value) = 0
       THEN /\ \E now \in Dates : report' = createEmptyReport(ComponentName, now)
            /\ pc' = "done"
            /\ issues' = searchReturn.value
            /\ UNCHANGED <<failure, batchVars>>
       ELSE /\ issues' = searchReturn.value
            /\ requests' = [k \in DOMAIN searchReturn.value |->
                               RequestFrom(ComponentName, searchReturn.value[k])]
            /\ replies' = [k \in DOMAIN searchReturn.value |-> NoOutcome]
            /\ calls' = [k \in DOMAIN searchReturn.value |-> 0]
            /\ i' = 0
            /\ results' = <<>>
            /\ batchPromises' = <<>>
            /\ bpc' = "loop"
            /\ pc' = "classify"
            /\ UNCHANGED <<report, failure, outOfOrder, delays, chunks>>
    /\ UNCHANGED <<options, analyses, summary, summaryReply, markdown, announced>>
    /\ UNCHANGED <<classifyVars, searchVars, cliVars>>

\* analyzeIssuesBatch has returned: pair the issues with the analyses and
\* call generateSummary.
AfterBatch ==
    /\ pc = "classify"
    /\ bpc = "returned"
    /\ analyses' = PairUp(issues, results)
    /\ announced' = Announce(PairUp(issues, results))
    /\ pc' = "summary"
    /\ UNCHANGED <<options, issues, summary, report, summaryReply, failure, markdown>>
    /\ UNCHANGED <<classifyVars, batchVars, searchVars, cliVars>>

\* The backend answers the summary call and generateSummary returns.
SummaryResponds ==
    /\ pc = "summary"
    /\ \E out \in SummaryOutcomes :
        /\ summaryReply' = out
        /\ summary' = generateSummary(ComponentName, analyses, out)
    /\ pc' = "report"
    /\ UNCHANGED <<options, issues, analyses, report, failure, markdown, announced>>
    /\ UNCHANGED <<classifyVars, batchVars, searchVars, cliVars>>

\* createReport builds the report and analyzeComponent returns it.
CreateReport ==
    /\ pc = "report"
    /\ \E now \in Dates :
           report' = createReport(ComponentName, issues, analyses, summary, now)
    /\ pc' = "done"
    /\ UNCHANGED <<options, issues, analyses, summary, summaryReply, failure, markdown,
                   announced>>
    /\ UNCHANGED <<classifyVars, batchVars, searchVars, cliVars>>

\* ReportService.saveReport renders the report analyzeComponent returned.
RenderReport ==
    /\ pc = "done"
    /\ markdown = NoDocument
    /\ markdown' = generateMarkdownReport(report)
    /\ UNCHANGED <<options, pc, issues, analyses, summary, report, summaryReply, failure,
                   announced>>
    /\ UNCHANGED <<classifyVars, batchVars, searchVars, cliVars>>

(***************************************************************************)
(* ConfigService, ShadcnIssueAnalyzer.saveReport and getAnalysisStats, and *)
(* the analyze command of the CLI.                                         *)
(***************************************************************************)
\* process.env.OUTPUT_DIR || './reports'
OutputDir == "./reports"

\* Mutant of validateConfig: a missing key is accepted.
validateConfigLenient(config) == Returned(EmptyObject)

\* ConfigService.validateConfig
validateConfig(config) ==
    IF config.openaiApiKey = <<>>
    THEN Threw(Error("Error", <<"OPENAI_API_KEY environment variable is required">>))
    ELSE Returned(EmptyObject)

\* isoString.split('T')[0]: the day of an instant.
DayOf(date) ==
    CASE date = "2025-01-01T00:00:00.000Z" -> "2025-01-01"
      [] date = "2025-06-30T23:59:59.999Z" -> "2025-06-30"
      [] OTHER -> date

\* Mutant of getOutputPath: the file name has no date.
getOutputPathUndated(componentName, format, now) ==
    Path(OutputDir, <<componentName, "-analysis", ".", format>>)

\* ConfigService.getOutputPath, with the instant new Date() gives.
getOutputPath(componentName, format, now) ==
    Path(OutputDir, <<componentName, "-analysis-", DayOf(now), ".", format>>)

\* The file system operations that may fail.
FsFaults == {"none", "mkdir-md", "write-md", "mkdir-json", "write-json"}

FsError(fault) ==
    IF fault \in {"mkdir-md", "mkdir-json"}
    THEN Error("Error", <<"EACCES: permission denied, mkdir">>)
    ELSE Error("Error", <<"EACCES: permission denied, open">>)

\* ReportService.saveReport: the directory, the rendering, the write; doc
\* is generateMarkdownReport(report).
saveMarkdownReport(doc, outputPath, fault) ==
    IF fault = "mkdir-md"
    THEN Threw(Error("Error", <<"Failed to save report: ">> \o ErrorText(FsError(fault))))
    ELSE IF doc.threw
    THEN Threw(Error("Error", <<"Failed to save report: ">> \o ErrorText(doc.error)))
    ELSE IF fault = "write-md"
    THEN Threw(Error("Error", <<"Failed to save report: ">> \o ErrorText(FsError(fault))))
    ELSE Returned(EmptyObject)

\* ReportService.saveJsonReport: the directory, JSON.stringify, the write.
saveJsonReport(r, outputPath, fault) ==
    IF fault \in {"mkdir-json", "write-json"}
    THEN Threw(Error("Error", <<"Failed to save JSON report: ">> \o ErrorText(FsError(fault))))
    ELSE Returned(EmptyObject)

\* Math.round(10 * (part / total)) in tenths, for non-negative numbers.
RoundTenths(part, total) == (20 * part + total) \div (2 * total)

\* ShadcnIssueAnalyzer.getAnalysisStats
getAnalysisStats(r) ==
    LET total == r.total_issues
    IN  IF total = 0
        THEN Stats(0, 0, 0)
        ELSE Stats(RoundTenths(100 * r.critical_issues, total),
                   RoundTenths(100 * r.high_priority_issues, total),
                   RoundTenths(SumConfidence(r.issues), total))

\* new ShadcnIssueAnalyzer(): the ConfigService validates the configuration
\* and ensureOutputDirectory creates the output directory; an error ends the
\* command with exit code 1.
Construct ==
    /\ cpc = "start"
    /\ \E fault \in {"none", "mkdir-output"} :
        IF validateConfig([openaiApiKey |-> env.apiKey]).threw
        THEN /\ cpc' = "exited"
             /\ exitCode' = 1
             /\ UNCHANGED fsFault
        ELSE IF fault = "mkdir-output"
        THEN /\ cpc' = "exited"
             /\ exitCode' = 1
             /\ fsFault' = fault
        ELSE /\ cpc' = "constructed"
             /\ UNCHANGED <<exitCode, fsFault>>
    /\ UNCHANGED <<env, files, stats, saveError>>
    /\ UNCHANGED <<classifyVars, batchVars, searchVars, analyzerVars>>

\* The options of a command: --max-issues left at its default '50' or given
\* as 2, read with parseInt; --include-closed given or not.
CliOptions ==
    {[maxIssues |-> JNum(50), includeClosedIssues |-> FALSE],
     [maxIssues |-> JNum(2), includeClosedIssues |-> TRUE]}

\* The command calls analyzeComponent with the options of the command line.
CallAnalyze ==
    /\ cpc = "constructed"
    /\ pc = "idle"
    /\ \E opts \in CliOptions : options' = opts
    /\ pc' = "start"
    /\ cpc' = "analyzing"
    /\ UNCHANGED <<issues, analyses, summary, report, summaryReply, failure, markdown,
                   announced>>
    /\ UNCHANGED <<env, exitCode, files, stats, saveError, fsFault>>
    /\ UNCHANGED <<classifyVars, batchVars, searchVars>>

\* analyzeComponent has settled: its error ends the command with exit code 1,
\* its report is saved next.
AnalyzeReturns ==
    /\ cpc = "analyzing"
    /\ pc \in {"done", "failed"}
    /\ IF pc = "failed"
       THEN cpc' = "exited" /\ exitCode' = 1
       ELSE cpc' = "save" /\ UNCHANGED exitCode
    /\ UNCHANGED <<env, files, stats, saveError, fsFault>>
    /\ UNCHANGED <<classifyVars, batchVars, searchVars, analyzerVars>>

\* ShadcnIssueAnalyzer.saveReport and the command around it; rethrows is
\* the throw of the catch block.
SaveReportWith(rethrows) ==
    /\ cpc = "save"
    /\ \E doc \in {generateMarkdownReport(report)} :
       \E now1 \in Dates, now2 \in Dates, fault \in FsFaults :
        LET markdownPath ==
                IF env.outputFile # NoPath
                THEN env.outputFile
                ELSE getOutputPath(report.component_name, "md", now1)
            jsonPath == getOutputPath(report.component_name, "json", now2)
            md == saveMarkdownReport(doc, markdownPath, fault)
            js == saveJsonReport(report, jsonPath, fault)
            written ==
                (IF md.threw THEN <<>> ELSE <<File(markdownPath, doc.lines, NoReport)>>)
                    \o (IF md.threw \/ js.threw
                        THEN <<>>
                        ELSE <<File(jsonPath, <<>>, report)>>)
            thrown == IF md.threw THEN md.error ELSE IF js.threw THEN js.error ELSE NoError
            happened ==
                CASE fault = "mkdir-md" -> TRUE
                  [] fault = "write-md" -> ~doc.threw
                  [] fault \in {"mkdir-json", "write-json"} -> ~md.threw
                  [] OTHER -> FALSE
        IN  /\ files' = files \o written
            /\ markdown' = IF fault = "mkdir-md" THEN markdown ELSE doc
            /\ fsFault' = IF happened THEN fault ELSE "none"
            /\ IF thrown # NoError /\ rethrows
               THEN /\ saveError' = thrown
                    /\ cpc' = "exited"
                    /\ exitCode' = 1
               ELSE /\ cpc' = "stats"
                    /\ UNCHANGED <<saveError, exitCode>>
    /\ UNCHANGED <<env, stats>>
    /\ UNCHANGED <<options, pc, issues, analyses, summary, report, summaryReply, failure,
                   announced>>
    /\ UNCHANGED <<classifyVars, batchVars, searchVars>>

\* Mutant of SaveReport: the catch block does not rethrow.
SaveReportSwallowing == SaveReportWith(FALSE)

\* ShadcnIssueAnalyzer.saveReport(report, options.output): the two paths, the
\* document, the structured file; an error is rethrown and ends the command
\* with exit code 1.
SaveReport == SaveReportWith(TRUE)

\* Mutant of ShowStats: the issues of the report are reordered in place.
ShowStatsReordering ==
    /\ cpc = "stats"
    /\ stats' = getAnalysisStats(report)
    /\ report' = [report EXCEPT !.issues =
                      [k \in DOMAIN report.issues |->
                          report.issues[Len(report.issues) + 1 - k]]]
    /\ cpc' = "exited"
    /\ exitCode' = 0
    /\ UNCHANGED <<env, files, saveError, fsFault>>
    /\ UNCHANGED <<options, pc, issues, analyses, summary, summaryReply, failure, markdown,
                   announced>>
    /\ UNCHANGED <<classifyVars, batchVars, searchVars>>

\* The command computes the statistics of the report, prints them, and ends.
ShowStats ==
    /\ cpc = "stats"
    /\ stats' = getAnalysisStats(report)
    /\ cpc' = "exited"
    /\ exitCode' = 0
    /\ UNCHANGED <<env, files, saveError, fsFault>>
    /\ UNCHANGED <<classifyVars, batchVars, searchVars, analyzerVars>>

(***************************************************************************)
(* Specification of one createReport call and the rendering of its report. *)
(***************************************************************************)
MaxPairs == 3

\* The analyses a report is built from: every severity level with every
\* is_critical the validation lets through, and an affected_functionality
\* that is a text, which the validation lets through as well.
ReportAnalyses ==
    {[Analysis(41, FALSE, SeverityLevels[k], 90) EXCEPT !.is_critical = c] :
        k \in DOMAIN SeverityLevels, c \in {JBool(TRUE), JBool(FALSE), JStr(<<"yes">>)}}
    \cup {[Analysis(41, FALSE, level, 60) EXCEPT
              !.affected_functionality = JStr(<<"rendering">>)] : level \in {"high", "low"}}

InitReport ==
    /\ ClassifyIdle
    /\ BatchIdle
    /\ SearchIdle
    /\ CliIdle
    /\ options = NoOptions
    /\ pc = "report"
    /\ \E s \in SeqsUpTo(ReportAnalyses, MaxPairs) :
        /\ issues = [k \in DOMAIN s |-> transformIssue(Item(IssueNumber(k), FALSE))]
        /\ analyses = [k \in DOMAIN s |->
                          [github_issue |-> transformIssue(Item(IssueNumber(k), FALSE)),
                           analysis |-> s[k]]]
    /\ summary = SummaryFallback(analyses)
    /\ report = NoReport
    /\ summaryReply = SummaryOutcome("reject", NoSummary)
    /\ failure = NoError
    /\ markdown = NoDocument
    /\ announced = Announce(analyses)

NextReport ==
    \/ CreateReport
    \/ RenderReport

SpecReport == InitReport /\ [][NextReport]_vars

\* The positions of the pairs of a report that satisfy a condition.
PairsWhere(r, Cond(_)) == {k \in DOMAIN r.issues : Cond(r.issues[k].analysis)}

Holds(flag) == flag \notin {JBool(FALSE), JNull, Absent, JStr(<<>>), JNum(0)}

\* C7: in the report createReport builds, critical_issues is the number of
\* pairs with is_critical set or severity_level critical, and
\* high_priority_issues is the number of pairs with severity_level high and
\* is_critical not set.
C7_ReportCounts ==
    pc = "done" =>
        /\ report.critical_issues =
               Cardinality(PairsWhere(report,
                   LAMBDA a : Holds(a.is_critical) \/ a.severity_level.s = <<"critical">>))
        /\ report.high_priority_issues =
               Cardinality(PairsWhere(report,
                   LAMBDA a : a.severity_level.s = <<"high">> /\ ~Holds(a.is_critical)))

C7_Witness ==
    /\ pc = "done"
    /\ Len(report.issues) = 3
    /\ report.issues[1].analysis.is_critical = JBool(TRUE)
    /\ report.issues[1].analysis.severity_level = JStr(<<"low">>)
    /\ report.issues[2].analysis.is_critical = JBool(FALSE)
    /\ report.issues[2].analysis.severity_level = JStr(<<"critical">>)
    /\ report.issues[3].analysis.is_critical = JBool(FALSE)
    /\ report.issues[3].analysis.severity_level = JStr(<<"high">>)
    /\ report.critical_issues = 2
    /\ report.high_priority_issues = 1

\* C8: the critical and the high-priority counts are disjoint: every pair is
\* counted at most once (a pair with is_critical set and severity_level high
\* is counted as critical only), so the two counts add up to the number of
\* pairs that are critical or high, and to no more than total_issues.
C8_CountsDisjoint ==
    pc = "done" =>
        /\ report.critical_issues + report.high_priority_issues =
               Cardinality(PairsWhere(report,
                   LAMBDA a : \/ Holds(a.is_critical)
                              \/ a.severity_level.s \in {<<"critical">>, <<"high">>}))
        /\ report.critical_issues + report.high_priority_issues <= report.total_issues

C8_Witness ==
    /\ pc = "done"
    /\ Len(report.issues) = 2
    /\ report.issues[1].analysis.is_critical = JBool(TRUE)
    /\ report.issues[1].analysis.severity_level = JStr(<<"high">>)
    /\ report.issues[2].analysis.is_critical = JBool(FALSE)
    /\ report.issues[2].analysis.severity_level = JStr(<<"high">>)
    /\ report.critical_issues = 1
    /\ report.high_priority_issues = 1
    /\ report.total_issues = 2

\* The document has the section of this name.
HasSection(doc, name) ==
    \E k \in DOMAIN doc : doc[k][1] = "## " /\ doc[k][Len(doc[k])] = name

\* The entries of the section of this name: the "### " lines between its
\* heading and the next "## " heading.
SectionEntries(doc, name) ==
    {j \in DOMAIN doc :
        /\ doc[j][1] = "### "
        /\ \E k \in 1..(j - 1) :
               /\ doc[k][1] = "## "
               /\ doc[k][Len(doc[k])] = name
               /\ \A m \in (k + 1)..(j - 1) : doc[m][1] # "## "}

\* C19: for every report createReport builds, the rendered document has a
\* Critical Issues section exactly when critical_issues > 0, with exactly
\* critical_issues entries, and a High Priority section exactly when
\* high_priority_issues > 0, with exactly high_priority_issues entries.
C19_RenderedSections ==
    (pc = "done" /\ markdown # NoDocument) =>
        /\ ~markdown.threw
        /\ HasSection(markdown.lines, " Critical Issues") <=> report.critical_issues > 0
        /\ Cardinality(SectionEntries(markdown.lines, " Critical Issues"))
               = report.critical_issues
        /\ HasSection(markdown.lines, " High Priority Issues")
               <=> report.high_priority_issues > 0
        /\ Cardinality(SectionEntries(markdown.lines, " High Priority Issues"))
               = report.high_priority_issues

(***************************************************************************)
(* Specification of one analyzeComponent call.                             *)
(***************************************************************************)
\* The search responses of a run: a failure, the first issues of the
\* tracker, pull requests only, and pull requests and a repeated issue.
RunResponses ==
    {[kind |-> "reject", items |-> <<>>]}
        \cup {[kind |-> "items",
               items |-> [k \in 1..len |-> Item(IssueNumber(k), FALSE)]] :
                  len \in 0..MaxRequests}
        \cup {[kind |-> "items", items |-> <<Item(IssueNumber(1), TRUE)>>],
              [kind |-> "items",
               items |-> <<Item(IssueNumber(1), TRUE), Item(IssueNumber(2), FALSE),
                           Item(IssueNumber(2), FALSE)>>]}

\* The options of a run: no maxIssues (the default applies), 0 and 2.
RunOptions ==
    {[maxIssues |-> Absent, includeClosedIssues |-> FALSE],
     [maxIssues |-> JNum(0), includeClosedIssues |-> TRUE],
     [maxIssues |-> JNum(2), includeClosedIssues |-> FALSE],
     [maxIssues |-> JNum(2), includeClosedIssues |-> TRUE]}

Init ==
    /\ ClassifyIdle
    /\ BatchIdle
    /\ searchOptions = NoOptions
    /\ searchResponse \in RunResponses
    /\ searchQuery = <<>>
    /\ searchReturn = SearchPending
    /\ options \in RunOptions
    /\ pc = "start"
    /\ issues = <<>>
    /\ analyses = <<>>
    /\ summary = NoSummary
    /\ report = NoReport
    /\ summaryReply = NoSummaryOutcome
    /\ failure = NoError
    /\ markdown = NoDocument
    /\ announced = NoAnnouncement
    /\ CliIdle

Next ==
    \/ StartAnalysis
    \/ SearchCompletes
    \/ AfterSearch
    \/ StartChunk
    \/ \E k \in 1..batchSize : Settle(k, RunOutcomes)
    \/ AllSettled
    \/ DelayElapsed
    \/ ReturnResults
    \/ AfterBatch
    \/ SummaryResponds
    \/ CreateReport

Spec == Init /\ [][Next]_vars

\* The scheduling of a run: every backend call made settles, the timer of
\* the delay fires, and the event loop runs a continuation that is ready.
Fairness ==
    /\ WF_vars(StartChunk)
    /\ WF_vars(\E k \in 1..batchSize : Settle(k, RunOutcomes))
    /\ WF_vars(AllSettled)
    /\ WF_vars(DelayElapsed)
    /\ WF_vars(ReturnResults)

SpecFair == Init /\ [][Next]_vars /\ Fairness

(***************************************************************************)
(* Specification of the analyze command: the analyzer is constructed, one  *)
(* analyzeComponent run, the report saved, the statistics shown.           *)
(***************************************************************************)
\* The search responses of a command: a failure, no issue, two issues, and
\* more than one chunk of issues.
CliResponses ==
    {[kind |-> "reject", items |-> <<>>]}
        \cup {[kind |-> "items",
               items |-> [k \in 1..len |-> Item(IssueNumber(k), FALSE)]] :
                  len \in {0, 2, MaxRequests}}

\* OPENAI_API_KEY unset or set, --output given or not.
CliEnvs ==
    {[apiKey |-> key, outputFile |-> out] :
        key \in {<<>>, <<"sk-test">>},
        out \in {NoPath, Path("out", <<"custom", ".", "md">>)}}

InitCli ==
    /\ ClassifyIdle
    /\ BatchIdle
    /\ searchOptions = NoOptions
    /\ searchResponse \in CliResponses
    /\ searchQuery = <<>>
    /\ searchReturn = SearchPending
    /\ AnalyzerIdle
    /\ env \in CliEnvs
    /\ cpc = "start"
    /\ exitCode = -1
    /\ files = <<>>
    /\ stats = NoStats
    /\ saveError = NoError
    /\ fsFault = "none"

NextCli ==
    \/ Construct
    \/ CallAnalyze
    \/ StartAnalysis
    \/ SearchCompletes
    \/ AfterSearch
    \/ StartChunk
    \/ \E k \in 1..batchSize : Settle(k, ScheduleOutcomes)
    \/ AllSettled
    \/ DelayElapsed
    \/ ReturnResults
    \/ AfterBatch
    \/ SummaryResponds
    \/ CreateReport
    \/ AnalyzeReturns
    \/ SaveReport
    \/ ShowStats

SpecCli == InitCli /\ [][NextCli]_vars

\* C9: when the search returns zero issues, analyzeComponent completes
\* without error and returns a report with total_issues = 0, critical_issues
\* = 0, high_priority_issues = 0, no pairs, and a recommended_actions list of
\* exactly one element, which states that the component appears stable.
C9_ZeroIssuesGiveEmptyReport ==
    (/\ pc \notin {"start", "search"}
     /\ searchReturn.status = "fulfilled"
     /\ Len(searchReturn.value) = 0) =>
        /\ pc = "done"
        /\ report.component_name = ComponentName
        /\ report.total_issues = 0
        /\ report.critical_issues = 0
        /\ report.high_priority_issues = 0
        /\ report.issues = <<>>
        /\ report.summary.isObject
        /\ report.summary.recommended_actions.type = "array"
        /\ Len(report.summary.recommended_actions.s) = 1
        /\ " component - it appears to be stable!"
               \in Range(report.summary.recommended_actions.s[1])

C9_Witness ==
    /\ pc = "done"
    /\ searchResponse.kind = "items"
    /\ Len(searchResponse.items) = 1
    /\ searchReturn.status = "fulfilled"
    /\ Len(searchReturn.value) = 0
    /\ report.total_issues = 0
    /\ Len(report.summary.recommended_actions.s) = 1

\* C18: the pairs of the report are in fetch order: pair k holds the k-th
\* fetched issue and the classification result of the request derived from
\* that issue (the backend's response to its call, or the fallback for it),
\* and total_issues is the number of pairs.
C18_PairsInFetchOrder ==
    (pc = "done" /\ searchReturn.value # <<>>) =>
        /\ Len(report.issues) = Len(searchReturn.value)
        /\ report.total_issues = Len(report.issues)
        /\ \A k \in DOMAIN report.issues :
               /\ report.issues[k].github_issue = searchReturn.value[k]
               /\ requests[k].issue_url = searchReturn.value[k].html_url
               /\ requests[k].issue_title = searchReturn.value[k].title
               /\ IF IsFailure(replies[k])
                  THEN /\ IsCanonicalFallback(report.issues[k].analysis)
                       /\ report.issues[k].analysis.issue_id =
                              JNum(searchReturn.value[k].number)
                  ELSE report.issues[k].analysis = replies[k].object

C18_Witness ==
    /\ pc = "done"
    /\ Len(report.issues) = 6
    /\ outOfOrder
    /\ replies[1] = Rejects
    /\ ~IsFailure(replies[2])
    /\ replies[2] # replies[6]
    /\ report.total_issues = 6

\* C13: a failure of the search backend is fatal: analyzeComponent fails with
\* the error of the search, rethrown to its caller; no report is produced,
\* not an empty or a partial one; no classification call and no summary call
\* is made in the run.
C13_SearchFailureIsFatal ==
    (searchResponse.kind = "reject" /\ pc \notin {"start", "search"}) =>
        /\ pc = "failed"
        /\ failure # NoError
        /\ failure = searchReturn.reason
        /\ "Failed to search GitHub issues: " \in Range(failure.message)
        /\ report = NoReport
        /\ bpc = "idle"
        /\ requests = <<>>
        /\ calls = <<>>
        /\ replies = <<>>
        /\ summaryReply = NoSummaryOutcome
        /\ summary = NoSummary

C13_Witness ==
    /\ searchResponse.kind = "reject"
    /\ searchReturn.status = "rejected"
    /\ pc = "failed"
    /\ failure.name = "Error"
    /\ report = NoReport

\* The summary call fails: create() rejects, the content is empty, or the
\* content is not JSON.
SummaryCallFailed == summaryReply.kind \in {"reject", "empty", "text"}

MentionsManualReview(text) ==
    \E k \in DOMAIN text :
        text[k] \in {"Manual review of issues recommended due to analysis failure",
                     "Manual review of issues recommended"}

\* C14 as claimed: on any failure of the summary call the run still produces
\* a report, and its summary is the fixed generic fallback: no
\* most_critical_issues, no common_problems, and one recommended action,
\* that manual review is recommended, whatever the classified issues are.
C14_SummaryFallbackIsFixedGeneric ==
    (pc = "done" /\ SummaryCallFailed) =>
        /\ report.summary.isObject
        /\ report.summary.most_critical_issues = SList(<<>>)
        /\ report.summary.common_problems = SList(<<>>)
        /\ report.summary.recommended_actions.type = "array"
        /\ Len(report.summary.recommended_actions.s) = 1
        /\ MentionsManualReview(report.summary.recommended_actions.s[1])

\* The titles of the first critical pairs of a report, three at most.
RECURSIVE FirstCriticalTitles(_, _)
FirstCriticalTitles(pairs, room) ==
    IF pairs = <<>> \/ room = 0 THEN <<>>
    ELSE IF \/ Holds(Head(pairs).analysis.is_critical)
            \/ Head(pairs).analysis.severity_level.s = <<"critical">>
    THEN <<Head(pairs).github_issue.title>> \o FirstCriticalTitles(Tail(pairs), room - 1)
    ELSE FirstCriticalTitles(Tail(pairs), room)

\* C14, amended: when the summary call fails (create() rejects, empty
\* content, content that is not JSON) the run still produces a report, and its
\* summary is the fallback of generateComponentSummary: most_critical_issues
\* holds the titles of the first critical pairs in order, three at most,
\* common_problems is the one fixed entry that the common problems could not
\* be analyzed, and recommended_actions is the one fixed entry that manual
\* review is recommended.
C14_SummaryFallback ==
    (pc \notin {"summary", "report"} /\ SummaryCallFailed) =>
        /\ pc = "done"
        /\ failure = NoError
        /\ report.summary.isObject
        /\ report.summary.most_critical_issues =
               SList(FirstCriticalTitles(report.issues, 3))
        /\ report.summary.common_problems =
               SList(<< <<"Unable to analyze common problems due to API error">> >>)
        /\ report.summary.recommended_actions =
               SList(<< <<"Manual review of issues recommended due to analysis failure">> >>)

C14_Witness ==
    /\ pc = "done"
    /\ summaryReply.kind = "text"
    /\ Len(report.issues) = 6
    /\ ~IsCriticalPair(report.issues[1])
    /\ report.critical_issues = 4
    /\ Len(report.summary.most_critical_issues.s) = 3
    /\ report.summary.most_critical_issues.s[1] = report.issues[2].github_issue.title

(***************************************************************************)
(* Claims about the analyze command.                                       *)
(***************************************************************************)
\* The faults of saveReport: a directory that cannot be created, a file that
\* cannot be written.
SaveFaults == {"mkdir-md", "write-md", "mkdir-json", "write-json"}

\* The report is the one analyzeComponent built from the state of its run.
ReportIntact ==
    \/ report = createReport(ComponentName, issues, analyses, summary, report.analysis_date)
    \/ /\ issues = <<>>
       /\ report = createEmptyReport(ComponentName, report.analysis_date)

\* C21: a persistence failure in saveReport (a directory that cannot be
\* created, a file that cannot be written) is rethrown to the caller as an
\* error naming the failure, and the command ends with exit code 1; it
\* happens only after analyzeComponent returned its report (the search, the
\* classification and the aggregation are over), and the report in memory is
\* still the one analyzeComponent built.
C21_PersistenceFailurePropagates ==
    fsFault \in SaveFaults =>
        /\ saveError # NoError
        /\ saveError.message[1] \in {"Failed to save report: ", "Failed to save JSON report: "}
        /\ cpc = "exited"
        /\ exitCode = 1
        /\ stats = NoStats
        /\ pc = "done"
        /\ failure = NoError
        /\ bpc \in {"idle", "returned"}
        /\ report # NoReport
        /\ ReportIntact

C21_Witness ==
    /\ fsFault = "write-json"
    /\ saveError.message[1] = "Failed to save JSON report: "
    /\ Len(files) = 1
    /\ report.total_issues = 2
    /\ ReportIntact

\* C22: when OPENAI_API_KEY is missing, the construction of the analyzer
\* fails and the command ends with exit code 1 before any network call: no
\* search query is sent, no classification call and no summary call is made,
\* analyzeComponent is not called, and nothing is written.
C22_MissingKeyFailsFast ==
    (env.apiKey = <<>> /\ cpc # "start") =>
        /\ cpc = "exited"
        /\ exitCode = 1
        /\ pc = "idle"
        /\ searchQuery = <<>>
        /\ searchReturn = SearchPending
        /\ requests = <<>>
        /\ calls = <<>>
        /\ chunks = 0
        /\ summaryReply = NoSummaryOutcome
        /\ report = NoReport
        /\ files = <<>>

C22_Witness ==
    /\ env.apiKey = <<>>
    /\ searchResponse.kind = "items"
    /\ Len(searchResponse.items) > 0
    /\ cpc = "exited"
    /\ exitCode = 1

\* The path is <output directory>/<component>-analysis-<date>.<format>, the
\* date a day (YYYY-MM-DD) of the instants of the model.
IsOutputPath(path, format) ==
    /\ path.dir = "./reports"
    /\ \E day \in {"2025-01-01", "2025-06-30"} :
           path.file = <<"button", "-analysis-", day, ".", format>>

\* C23 as claimed: both files saveReport writes are named
\* <component>-analysis-<date>.<ext> under the output directory, also when a
\* custom output file is passed.
C23_BothFilesInOutputDir ==
    \A k \in DOMAIN files :
        IsOutputPath(files[k].path, "md") \/ IsOutputPath(files[k].path, "json")

\* C23, amended: the structured file is always named
\* <component>-analysis-<date>.json under the output directory, <date> the day
\* of the save; the document is named <component>-analysis-<date>.md under
\* the output directory when no output file is passed, and is written to the
\* output file passed otherwise.  The document is written first.
C23_OutputPaths ==
    /\ Len(files) <= 2
    /\ Len(files) >= 1 =>
        /\ files[1].lines # <<>>
        /\ IF env.outputFile = NoPath
           THEN IsOutputPath(files[1].path, "md")
           ELSE files[1].path = env.outputFile
    /\ Len(files) = 2 =>
        /\ files[2].data = report
        /\ IsOutputPath(files[2].path, "json")
    /\ cpc = "stats" => Len(files) = 2

C23_Witness ==
    /\ Len(files) = 2
    /\ env.outputFile # NoPath
    /\ files[1].path = env.outputFile
    /\ files[1].path.dir # OutputDir
    /\ files[2].path = Path(OutputDir, <<"button", "-analysis-", "2025-06-30", ".", "json">>)

C23_WitnessDefault ==
    /\ Len(files) = 2
    /\ env.outputFile = NoPath
    /\ files[1].path = Path(OutputDir, <<"button", "-analysis-", "2025-01-01", ".", "md">>)

\* A classification call has been made.
ClassificationCalled == \E k \in DOMAIN calls : calls[k] > 0

\* The summary call has been made: generateSummary is running or has returned.
SummaryCalled == pc \in {"summary", "report"} \/ summaryReply # NoSummaryOutcome

\* C24: a run goes through fetch, classify, aggregate, render and persist in
\* this order: a classification call is made only once the search has
\* returned its issues, the summary call only once every classification call
\* has settled and analyzeIssuesBatch has returned, the report exists exactly
\* when analyzeComponent has returned (it is built by its last step), and a
\* document is rendered and a file written only from that report.
C24_StepsInOrder ==
    /\ (ClassificationCalled \/ requests # <<>>) =>
           /\ searchReturn.status = "fulfilled"
           /\ Len(requests) = Len(searchReturn.value)
    /\ pc \in {"classify", "summary", "report", "done"} => searchReturn.status = "fulfilled"
    /\ pc = "failed" => searchReturn.status = "rejected"
    /\ SummaryCalled =>
           /\ bpc = "returned"
           /\ \A k \in DOMAIN requests : calls[k] = 1 /\ replies[k] # NoOutcome
           /\ Len(analyses) = Len(requests)
    /\ pc \in {"start", "search", "classify", "summary", "report", "failed"} =>
           report = NoReport
    /\ pc = "done" =>
           /\ report # NoReport
           /\ ReportIntact
           /\ issues # <<>> => summaryReply # NoSummaryOutcome
    /\ (markdown # NoDocument \/ files # <<>>) =>
           /\ pc = "done"
           /\ cpc \in {"stats", "exited"}
           /\ markdown = generateMarkdownReport(report)
    /\ \A k \in DOMAIN files :
           /\ files[k].lines = (IF k = 1 THEN markdown.lines ELSE <<>>)
           /\ files[k].data = (IF k = 1 THEN NoReport ELSE report)

C24_Witness ==
    /\ Len(files) = 2
    /\ report.total_issues = MaxRequests
    /\ chunks = 2
    /\ delays = 1
    /\ summaryReply.kind = "object"
    /\ exitCode = 0

\* C25: once analyzeComponent has built the report, no later step changes a
\* field of it: not the console summary, not the rendering of the document,
\* not the saving of the two files, not the statistics.
C25_ReportImmutable == [][report # NoReport => report' = report]_vars

C25_Witness ==
    /\ cpc = "exited"
    /\ stats # NoStats
    /\ Len(files) = 2
    /\ markdown # NoDocument
    /\ report.total_issues = 2
    /\ report.issues[1] # report.issues[2]
    /\ ReportIntact

\* The summary holds the three lists.
HasThreeLists(sum) ==
    /\ sum.isObject
    /\ sum.most_critical_issues.type = "array"
    /\ sum.common_problems.type = "array"
    /\ sum.recommended_actions.type = "array"

\* C26: whatever the backend answers to the summary call, the summary of the
\* report holds the three lists, so that neither the rendering nor the
\* saving of the report fails because of the answer.
C26_SummaryAlwaysComplete ==
    /\ pc = "done" => HasThreeLists(report.summary)
    /\ (cpc \in {"stats", "exited"} /\ pc = "done" /\ fsFault = "none") =>
           /\ ~markdown.threw
           /\ saveError = NoError
           /\ Len(files) = 2

(***************************************************************************)
(* Claims about the rendered document and the counts of a run.             *)
(***************************************************************************)
\* The number of entries of the section of this name.
EntryCount(doc, name) == Cardinality(SectionEntries(doc, name))

\* C27: in a rendered document every issue of the report is an entry of
\* exactly one of the four severity sections: the entries of the four
\* sections are as many as the issues, and the entries of the Medium and Low
\* sections together are as many as the Medium/Low count shown, that is
\* total_issues - critical_issues - high_priority_issues.
C27_SectionsPartitionIssues ==
    (pc = "done" /\ markdown # NoDocument /\ ~markdown.threw) =>
        /\ EntryCount(markdown.lines, " Critical Issues")
             + EntryCount(markdown.lines, " High Priority Issues")
             + EntryCount(markdown.lines, " Medium Priority Issues")
             + EntryCount(markdown.lines, " Low Priority Issues")
               = report.total_issues
        /\ EntryCount(markdown.lines, " Medium Priority Issues")
             + EntryCount(markdown.lines, " Low Priority Issues")
               = report.total_issues - report.critical_issues - report.high_priority_issues

\* C28: the counts of the 'Analysis complete' message of a run are the
\* critical_issues and high_priority_issues of the report of the run.
C28_AnnouncedCountsAreReportCounts ==
    (pc = "done" /\ announced.made) =>
        /\ announced.criticalCount = report.critical_issues
        /\ announced.highCount = report.high_priority_issues

\* The line is the average confidence line with a number: digits, a point,
\* a digit, and the percent sign.
IsNumericAverage(line) ==
    /\ line[1] = "**Average Confidence Score:** "
    /\ Len(line) >= 5
    /\ line[Len(line)] = "%"
    /\ line[Len(line) - 2] = "."
    /\ \A k \in (2..(Len(line) - 3)) \cup {Len(line) - 1} : IsDigit(line[k])

\* C29: for a report with no issue, getAnalysisStats returns 0 for the three
\* statistics, and the document generateMarkdownReport renders has an average
\* confidence line with a number.
C29_EmptyReportAverages ==
    (report # NoReport /\ report.total_issues = 0) =>
        /\ stats # NoStats => stats = Stats(0, 0, 0)
        /\ (markdown # NoDocument /\ ~markdown.threw) =>
               \E k \in DOMAIN markdown.lines : IsNumericAverage(markdown.lines[k])

\* ceil(n / d)
CeilDiv(n, d) == (n + d - 1) \div d

\* analyzeIssuesBatch has returned: it has started ceil(N / 5) chunks, made
\* one call for each request, and has one result for each request.
ReturnedAfterAllChunks ==
    bpc = "returned" =>
        /\ chunks = CeilDiv(Len(requests), batchSize)
        /\ \A k \in DOMAIN requests : calls[k] = 1
        /\ Len(results) = Len(requests)
        /\ i >= Len(requests)

\* No request is called twice.
NeverRevisits == \A k \in DOMAIN calls : calls[k] <= 1

\* A run whose search found no issue makes no classification call and no
\* summary call.
NothingFetchedNothingCalled ==
    (pc \notin {"start", "search"} /\ searchReturn.status = "fulfilled"
        /\ Len(searchReturn.value) = 0) =>
        /\ pc = "done"
        /\ bpc = "idle"
        /\ requests = <<>>
        /\ calls = <<>>
        /\ chunks = 0
        /\ summaryReply = NoSummaryOutcome

\* C30: when every backend call eventually settles, analyzeIssuesBatch
\* returns for every sequence of requests; it returns after exactly
\* ceil(N / 5) chunks, it never calls the backend twice for a request, and a
\* run that fetched no issue makes no classification call and no summary
\* call.
C30_BatchTerminates ==
    /\ []ReturnedAfterAllChunks
    /\ []NeverRevisits
    /\ []NothingFetchedNothingCalled
    /\ (pc = "classify" ~> bpc = "returned")

C30_Witness ==
    /\ bpc = "returned"
    /\ Len(requests) = MaxRequests
    /\ chunks = 2
    /\ delays = 1
    /\ \A k \in DOMAIN requests : calls[k] = 1

C30_WitnessNothingFetched ==
    /\ pc = "done"
    /\ searchReturn.status = "fulfilled"
    /\ searchReturn.value = <<>>
    /\ Len(searchResponse.items) > 0
    /\ chunks = 0

====
